---- MODULE Spec2Model ----
(***************************************************************************)
(* Model of the HTTP client (ApiInstance: response cache, retry loop,      *)
(* request pipeline with its interceptors) and of the hook layer built on  *)
(* it (useFetch, useInfiniteFetch, and useMutation with its module-level   *)
(* pendingRequests map); of the timing hooks (useDebounce,                 *)
(* useDebounceFunc, useConditionalDebounce) and useSlider; of the local    *)
(* storage helpers; and of the form helpers provideFieldError and          *)
(* providePasswordFieldError.                                              *)
(*                                                                         *)
(* JavaScript strings are sequences of character codes, so that            *)
(* JSON.stringify, the 32-bit string hash and the truthiness of the empty  *)
(* string are computed and not assumed.  The JavaScript value `undefined`  *)
(* of an optional number is the integer Undefined.                         *)
(***************************************************************************)
EXTENDS Integers, Sequences, FiniteSets, TLC

VARIABLES
  maxCacheSize,      \* ApiInstance.maxCacheSize
  interceptors,      \* ApiInstance.interceptors: which hooks are registered
  cache,             \* ApiInstance.cache: Map<string, TCacheEntry>
  cacheAccessOrder,  \* ApiInstance.cacheAccessOrder: string[]
  now,               \* Date.now(), in milliseconds
  req,               \* the request() calls: position, config and locals of each
  aborted,           \* the AbortControllers whose abort() has been called
  ret,               \* the last cache operation and what it returned
  useOrder,          \* observation: the cached keys in order of their last use, oldest first
  pair,              \* two request configs whose cache keys are compared
  keys,              \* their cache keys, once built
  pendingRequests,   \* the module-level Map<string, Promise>: request key -> request
  hooks,             \* the hook instances: arguments, abortControllerRef, state
  calls,             \* the calls of the hook functions: position and outcome
  localStorage,      \* window.localStorage: key -> item
  document           \* the elements of the page that the form helpers write

apiVars == <<maxCacheSize, interceptors, cache, cacheAccessOrder, now, req, aborted, ret, useOrder>>
keyVars == <<pair, keys>>
mutVars == <<pendingRequests, hooks, calls>>
pageVars == <<localStorage, document>>
vars == <<apiVars, keyVars, mutVars, pageVars>>

\* the variables outside the client instance, and outside the key comparison
NotApi == <<keyVars, mutVars, pageVars>>
NotKey == <<apiVars, mutVars, pageVars>>

----------------------------------------------------------------------------
(* Bounds *)

MaxN == 2            \* largest maxCacheSize option tried
MaxReq == 1          \* request() calls in one behaviour of the cache specification
TickMs == 100        \* granularity of the clock
MaxTimeCache == 200  \* the clock stops here in the cache specification

Undefined == -1      \* `undefined` of an optional number (ttl, revalidate)

----------------------------------------------------------------------------
(* Strings *)

Str(s) == s
EmptyStr == << >>
QUOTE == 34
BACKSLASH == 92

\* a string is truthy unless it is empty
Truthy(s) == Len(s) > 0

\* Number.prototype.toString(10) of a non-negative integer
RECURSIVE Digits(_)
Digits(n) == IF n < 10 THEN <<48 + n>> ELSE Digits(n \div 10) \o <<48 + (n % 10)>>

\* JSON.stringify of a string: quotes and backslashes are escaped
EscapeChar(c) == IF c = QUOTE \/ c = BACKSLASH THEN <<BACKSLASH, c>> ELSE <<c>>

\* the characters lo..hi of s, escaped (by halves, to keep the recursion shallow)
RECURSIVE EscapeRange(_, _, _)
EscapeRange(s, lo, hi) ==
  IF lo > hi THEN << >>
  ELSE IF lo = hi THEN EscapeChar(s[lo])
  ELSE EscapeRange(s, lo, (lo + hi) \div 2) \o EscapeRange(s, (lo + hi) \div 2 + 1, hi)

Escape(s) == EscapeRange(s, 1, Len(s))

JsonString(s) == <<QUOTE>> \o Escape(s) \o <<QUOTE>>

\* JSON.stringify of a params object, a sequence of <<name, number>> in
\* insertion order
RECURSIVE JsonMembers(_)
JsonMembers(ps) ==
  IF ps = << >> THEN << >>
  ELSE JsonString(ps[1][1]) \o <<58>> \o Digits(ps[1][2])
       \o (IF Len(ps) > 1 THEN <<44>> ELSE << >>) \o JsonMembers(Tail(ps))

JsonParams(ps) == <<123>> \o JsonMembers(ps) \o <<125>>

----------------------------------------------------------------------------
(* ApiInstance.hash: a 32-bit integer is kept as two 16-bit halves *)

Half == 65536

Int32(hi, lo) == [hi |-> hi, lo |-> lo]

\* hash << 5
Shl5(h) ==
  LET l == h.lo * 32
  IN Int32((h.hi * 32 + l \div Half) % Half, l % Half)

\* ((hash << 5) - hash + char) & itself: the sum wrapped to 32 bits
HashStep(h, char) ==
  LET s == Shl5(h)
      l == s.lo - h.lo + char
      borrow == IF l < 0 THEN 1 ELSE 0
      l1 == l + borrow * Half
      carry == l1 \div Half
  IN Int32((s.hi - h.hi - borrow + carry + Half) % Half, l1 % Half)

\* the loop over the characters lo..hi of str, in order, starting from h.
\* The range is split in halves to keep the recursion shallow; the test on
\* left always holds and makes the left half be computed first.
RECURSIVE HashLoop(_, _, _, _)
HashLoop(str, lo, hi, h) ==
  IF lo > hi THEN h
  ELSE IF lo = hi THEN HashStep(h, str[lo])
  ELSE LET left == HashLoop(str, lo, (lo + hi) \div 2, h)
       IN IF left.hi >= 0 THEN HashLoop(str, (lo + hi) \div 2 + 1, hi, left) ELSE left

Digit36(d) == IF d < 10 THEN 48 + d ELSE 87 + d

RECURSIVE Base36(_)
Base36(h) ==
  LET rh == h.hi % 36
      t == rh * Half + h.lo
      q == Int32(h.hi \div 36, t \div 36)
  IN IF h.hi = 0 /\ h.lo < 36 THEN <<Digit36(h.lo)>>
     ELSE Base36(q) \o <<Digit36(t % 36)>>

\* Number.prototype.toString(36) of a signed 32-bit integer
ToString36(h) ==
  IF h.hi >= Half \div 2
    THEN <<45>> \o Base36(Int32((Half - 1 - h.hi + (IF h.lo = 0 THEN 1 ELSE 0)) % Half,
                                (Half - h.lo) % Half))
    ELSE Base36(h)

hash(str) == ToString36(HashLoop(str, 1, Len(str), Int32(0, 0)))

\* this.source of an instance constructed without options.source
Source == <<107, 111, 109, 99, 97, 114, 100, 115, 45, 100, 101, 102, 97, 117, 108, 116>>

\* keys longer than this are replaced by their hash
KeyStringLimit == 200

\* JSON.stringify({ url: config.url, params: config.params }); a member whose
\* value is undefined is left out
KeyString(config) ==
  <<123, 34, 117, 114, 108, 34, 58>> \o JsonString(config.url)
  \o (IF config.params.defined
        THEN <<44, 34, 112, 97, 114, 97, 109, 115, 34, 58>> \o JsonParams(config.params.entries)
        ELSE << >>)
  \o <<125>>

buildcacheKey(config) ==
  LET keyString == KeyString(config)
  IN IF Len(keyString) > KeyStringLimit
       THEN Source \o <<58>> \o hash(keyString)
       ELSE Source \o <<58>> \o keyString

----------------------------------------------------------------------------
(* ApiInstance: the cache.  A cache state st is [cache, order, max]. *)

EmptyMap == [k \in {} |-> 0]
MapSet(m, key, v) == [k \in DOMAIN m \cup {key} |-> IF k = key THEN v ELSE m[k]]
MapDelete(m, key) == [k \in DOMAIN m \ {key} |-> m[k]]

\* the page before a form helper has written to it: the error element of a
\* field is empty, and the label of the field has no class
NoDocument ==
  [field_error |-> [textContent |-> ""], label |-> [exists |-> TRUE, classList |-> {}]]

\* const index = arr.indexOf(key); if (index > -1) arr.splice(index, 1)
RECURSIVE SpliceOut(_, _)
SpliceOut(arr, key) ==
  IF arr = << >> THEN << >>
  ELSE IF Head(arr) = key THEN Tail(arr)
  ELSE <<Head(arr)>> \o SpliceOut(Tail(arr), key)

\* new ApiInstance(options): options.maxCacheSize || 100
DefaultMaxCacheSize == 100
Constructor(optMaxCacheSize) ==
  IF optMaxCacheSize = Undefined \/ optMaxCacheSize = 0
    THEN DefaultMaxCacheSize ELSE optMaxCacheSize

State == [cache |-> cache, order |-> cacheAccessOrder, max |-> maxCacheSize]

getCacheEntry(st, key) ==
  IF key \in DOMAIN st.cache
    THEN [st EXCEPT !.order = Append(SpliceOut(@, key), key)]
    ELSE st

setCacheEntry(st, key, entry) ==
  LET full == Cardinality(DOMAIN st.cache) >= st.max /\ key \notin DOMAIN st.cache
      shifted == full /\ st.order # << >>        \* shift() of [] is undefined
      order1 == IF shifted THEN Tail(st.order) ELSE st.order
      cache1 == IF shifted /\ Truthy(Head(st.order))
                  THEN MapDelete(st.cache, Head(st.order)) ELSE st.cache
  IN [st EXCEPT !.cache = MapSet(cache1, key, entry),
                !.order = Append(SpliceOut(order1, key), key)]

removeCacheEntry(st, key) ==
  [st EXCEPT !.cache = MapDelete(@, key), !.order = SpliceOut(@, key)]

\* the comparison of expired slipped to >=
expiredAtTtl(cached, t) ==
  cached.ttl # Undefined /\ cached.ttl # 0 /\ t - cached.timestamp >= cached.ttl

\* cached.ttl && Date.now() - cached.timestamp > cached.ttl
\* (an undefined ttl and a ttl of 0 are both falsy)
expired(cached, t) ==
  cached.ttl # Undefined /\ cached.ttl # 0 /\ t - cached.timestamp > cached.ttl

\* observation: the key just used becomes the most recently used one, and
\* only keys that are in the cache are remembered
Used(order, key) == Append(SelectSeq(order, LAMBDA k : k # key), key)
Cached(order, c) == SelectSeq(order, LAMBDA k : k \in DOMAIN c)

----------------------------------------------------------------------------
(* ApiInstance.request and fetchWithRetry, with the interceptors          *)

UrlA == <<47, 97>>     \* "/a"
UrlB == <<47, 98>>     \* "/b"

NoEntry == [data |-> Undefined, timestamp |-> 0, ttl |-> Undefined]

\* ret: what the step just taken returned when it was a getCache call (the
\* value, the time and the entry read), NoRet after any other step
NoRet == [op |-> "none", key |-> EmptyStr, value |-> Undefined, at |-> 0,
          entry |-> NoEntry]

NoSignal == 0
NoResult == [kind |-> "none", data |-> Undefined, cacheKey |-> EmptyStr,
             fromCache |-> FALSE, error |-> "none"]
Resolved(data, cacheKey, fromCache) ==
  [kind |-> "ok", data |-> data, cacheKey |-> cacheKey,
   fromCache |-> fromCache, error |-> "none"]
Rejected(error) ==
  [kind |-> "error", data |-> Undefined, cacheKey |-> EmptyStr,
   fromCache |-> FALSE, error |-> error]

NoConfig == [url |-> EmptyStr, params |-> [defined |-> FALSE, entries |-> << >>],
             method |-> "undefined", body |-> [defined |-> FALSE, entries |-> << >>],
             cache |-> [enabled |-> FALSE, revalidate |-> Undefined],
             retry |-> Undefined, signal |-> NoSignal,
             onUpload |-> FALSE, onDownload |-> FALSE]

\* a request() call: its position, the config it was given, its locals
\* (config is finalConfig), the promise it returned, and observations: how
\* often each interceptor ran for it, the error raised inside its try block,
\* the error handed to the error interceptor, the url handed to the transport
IdleRequest == [pc |-> "idle", given |-> NoConfig, config |-> NoConfig,
                cacheKey |-> EmptyStr,
                attempt |-> 0, wakeAt |-> 0, lastErr |-> "none",
                result |-> NoResult,
                fetches |-> 0, lastOutcome |-> "none", failedAt |-> 0,
                reqRuns |-> 0, resRuns |-> 0, errRuns |-> 0,
                raised |-> "none", errSeen |-> "none", sentUrl |-> EmptyStr]

\* this.interceptors = {}
NoInterceptors == [request |-> "none", response |-> "none", error |-> "none"]

\* the request interceptors tried: "rewrite" returns the config with another
\* url and one retry, "throw" throws
RequestInterceptor(config) == [config EXCEPT !.url = UrlB, !.retry = 1]
\* the response interceptors tried: "replace" returns another ok response,
\* "throw" throws
InterceptedData == 3
\* the error interceptors tried: "rethrow" throws an error of its own,
\* "recover" returns a value
RecoveredData == 4
InterceptorError == "InterceptorError"
HandledError == "HandledError"

\* finalConfig.cache && finalConfig.cache.enabled && finalConfig.method === "GET"
UsesCache(config) == config.cache.enabled /\ config.method = "GET"

\* finalConfig.retry ?? 0
RetryOf(config) == IF config.retry = Undefined THEN 0 ELSE config.retry

\* the backoff without its doubling
DelayFixed(attempt) == 200

\* Math.pow(2, attempt) * 200
BackoffBase == 200
Delay(attempt) == (2 ^ attempt) * BackoffBase

Busy(r) == req[r].pc \in {"called", "fetching", "sleeping", "responded"}

\* one transport call (fetch or XHR) starts; observations: fetches counts the
\* transport calls of the request, lastOutcome is how the latest one ended and
\* failedAt when the latest failed one ended
StartAttempt(q) ==
  [q EXCEPT !.pc = "fetching", !.fetches = @ + 1, !.lastOutcome = "pending",
            !.sentUrl = q.config.url]

\* fetchWithXHR is used when a progress callback is given, fetch otherwise
UsesXHR(config) == config.onUpload \/ config.onDownload

\* the transport can still answer: a fetch() whose signal is aborted only
\* rejects with the abort error, while fetchWithXHR listens for an abort
\* event only, which a signal aborted before the call never sends
Live(config) == UsesXHR(config) \/ config.signal \notin aborted
EndAttempt(q, t, outcome) ==
  [q EXCEPT !.lastOutcome = outcome,
            !.failedAt = IF outcome = "ok" THEN @ ELSE t]

\* request() returns or throws: its locals are gone, the settled promise, the
\* retry count asked for and the observations stay
Settle(q, result) ==
  [IdleRequest EXCEPT !.pc = IF result.kind = "ok" THEN "resolved" ELSE "rejected",
                      !.config = [NoConfig EXCEPT !.retry = q.config.retry],
                      !.result = result, !.fetches = q.fetches,
                      !.lastOutcome = q.lastOutcome, !.failedAt = q.failedAt,
                      !.reqRuns = q.reqRuns, !.resRuns = q.resRuns,
                      !.errRuns = q.errRuns, !.raised = q.raised,
                      !.errSeen = q.errSeen]

\* handleError(error): the error interceptor settles the call when there is
\* one, the error is rethrown otherwise
handleError(q, error) ==
  CASE interceptors.error = "none" -> Settle(q, Rejected(error))
    [] interceptors.error = "rethrow" ->
         Settle([q EXCEPT !.errRuns = @ + 1, !.errSeen = error], Rejected(HandledError))
    [] interceptors.error = "recover" ->
         Settle([q EXCEPT !.errRuns = @ + 1, !.errSeen = error],
                Resolved(RecoveredData, EmptyStr, FALSE))

\* an error is thrown inside the try block of request(): the catch block
Fail(q, error) == handleError([q EXCEPT !.raised = error], error)

\* request(config) up to its first await: handleInterceptors(config)
Call(config) ==
  LET q == [IdleRequest EXCEPT !.pc = "called", !.given = config, !.config = config]
  IN CASE interceptors.request = "none" -> q
       [] interceptors.request = "rewrite" ->
            [q EXCEPT !.config = RequestInterceptor(config), !.reqRuns = @ + 1]
       [] interceptors.request = "throw" ->
            Fail([q EXCEPT !.reqRuns = @ + 1], InterceptorError)

Request(r, config) ==
  /\ ~Busy(r)
  /\ req' = [req EXCEPT ![r] = Call(config)]
  /\ ret' = NoRet
  /\ UNCHANGED <<maxCacheSize, interceptors, cache, cacheAccessOrder, now, aborted, useOrder, NotApi>>

\* request(): the cache key, the cache lookup and, on a miss, the first
\* transport call of fetchWithRetry
RequestLookup(r) ==
  LET q == req[r]
      cacheKey == buildcacheKey(q.config)
      hit == UsesCache(q.config) /\ cacheKey \in DOMAIN cache
      st1 == IF UsesCache(q.config) THEN getCacheEntry(State, cacheKey) ELSE State
      fresh == hit /\ ~expired(cache[cacheKey], now)
      st2 == IF hit /\ ~fresh THEN removeCacheEntry(st1, cacheKey) ELSE st1
  IN /\ q.pc = "called"
     /\ cache' = st2.cache
     /\ cacheAccessOrder' = st2.order
     /\ req' = [req EXCEPT ![r] =
                  IF fresh
                    THEN Settle(q, Resolved(cache[cacheKey].data, cacheKey, TRUE))
                    ELSE StartAttempt([q EXCEPT !.cacheKey = cacheKey, !.attempt = 0])]
     /\ useOrder' = Cached(IF hit THEN Used(useOrder, cacheKey) ELSE useOrder, st2.cache)
     /\ ret' = NoRet
     /\ UNCHANGED <<maxCacheSize, interceptors, now, aborted, NotApi>>

\* the transport answers with an ok response: fetchWithRetry returns it and
\* handleResponse(response) runs the response interceptor
TransportOk(r, data) ==
  LET q == req[r]
      q1 == EndAttempt(q, now, "ok")
      responded(d) == [q1 EXCEPT !.pc = "responded", !.result = Resolved(d, EmptyStr, FALSE)]
  IN /\ q.pc = "fetching"
     /\ Live(q.config)
     /\ req' = [req EXCEPT ![r] =
                  CASE interceptors.response = "none" -> responded(data)
                    [] interceptors.response = "replace" ->
                         [responded(InterceptedData) EXCEPT !.resRuns = @ + 1]
                    [] interceptors.response = "throw" ->
                         Fail([q1 EXCEPT !.resRuns = @ + 1], InterceptorError)]
     /\ ret' = NoRet
     /\ UNCHANGED <<maxCacheSize, interceptors, cache, cacheAccessOrder, now, aborted, useOrder, NotApi>>

\* the loop test slipped: the last retry is not made
TransportFailShort(r, err) ==
  LET q == req[r]
      q1 == [EndAttempt(q, now, err) EXCEPT !.lastErr = err]
  IN /\ q.pc = "fetching"
     /\ Live(q.config)
     /\ req' = [req EXCEPT ![r] =
                  IF q.attempt + 1 >= RetryOf(q.config)
                    THEN Fail(q1, err)
                    ELSE [q1 EXCEPT !.pc = "sleeping", !.wakeAt = now + Delay(q.attempt)]]
     /\ ret' = NoRet
     /\ UNCHANGED <<maxCacheSize, interceptors, cache, cacheAccessOrder, now, aborted, useOrder, NotApi>>

\* the transport call fails (network error, or a response that is not ok):
\* the catch block of fetchWithRetry
TransportFail(r, err) ==
  LET q == req[r]
      q1 == [EndAttempt(q, now, err) EXCEPT !.lastErr = err]
  IN /\ q.pc = "fetching"
     /\ Live(q.config)
     /\ req' = [req EXCEPT ![r] =
                  IF q.attempt = RetryOf(q.config)
                    THEN Fail(q1, err)
                    ELSE [q1 EXCEPT !.pc = "sleeping", !.wakeAt = now + Delay(q.attempt)]]
     /\ ret' = NoRet
     /\ UNCHANGED <<maxCacheSize, interceptors, cache, cacheAccessOrder, now, aborted, useOrder, NotApi>>

\* the abort error leaves request() without passing through its catch block
TransportAbortUnhandled(r) ==
  LET q == req[r]
  IN /\ q.pc = "fetching"
     /\ q.config.signal \in aborted
     /\ req' = [req EXCEPT ![r] =
                  Settle([EndAttempt(q, now, "AbortError") EXCEPT !.raised = "AbortError"],
                         Rejected("AbortError"))]
     /\ ret' = NoRet
     /\ UNCHANGED <<maxCacheSize, interceptors, cache, cacheAccessOrder, now, aborted, useOrder, NotApi>>

\* the transport call rejects because its signal is aborted: rethrown at once
TransportAbort(r) ==
  LET q == req[r]
  IN /\ q.pc = "fetching"
     /\ q.config.signal \in aborted
     /\ req' = [req EXCEPT ![r] = Fail(EndAttempt(q, now, "AbortError"), "AbortError")]
     /\ ret' = NoRet
     /\ UNCHANGED <<maxCacheSize, interceptors, cache, cacheAccessOrder, now, aborted, useOrder, NotApi>>

\* the request interceptor moved into the retry loop
RetryWakeIntercepts(r) ==
  LET q == req[r]
  IN /\ q.pc = "sleeping"
     /\ now >= q.wakeAt
     /\ req' = [req EXCEPT ![r] =
                  StartAttempt([q EXCEPT !.attempt = @ + 1,
                                         !.reqRuns = IF interceptors.request = "none"
                                                       THEN @ ELSE @ + 1])]
     /\ ret' = NoRet
     /\ UNCHANGED <<maxCacheSize, interceptors, cache, cacheAccessOrder, now, aborted, useOrder, NotApi>>

\* the setTimeout of the retry loop fires: attempt++ and the next transport call
RetryWake(r) ==
  LET q == req[r]
  IN /\ q.pc = "sleeping"
     /\ now >= q.wakeAt
     /\ req' = [req EXCEPT ![r] = StartAttempt([q EXCEPT !.attempt = @ + 1])]
     /\ ret' = NoRet
     /\ UNCHANGED <<maxCacheSize, interceptors, cache, cacheAccessOrder, now, aborted, useOrder, NotApi>>

\* request() after fetchWithRetry returned: the body is parsed, stored in the
\* cache when the request uses it, and the call resolves
RequestFinish(r) ==
  LET q == req[r]
      data == q.result.data
      st1 == IF UsesCache(q.config)
               THEN setCacheEntry(State, q.cacheKey,
                                  [data |-> data, timestamp |-> now,
                                   ttl |-> q.config.cache.revalidate])
               ELSE State
  IN /\ q.pc = "responded"
     /\ Live(q.config)
     /\ cache' = st1.cache
     /\ cacheAccessOrder' = st1.order
     /\ req' = [req EXCEPT ![r] = Settle(q, Resolved(data, q.cacheKey, FALSE))]
     /\ useOrder' = Cached(IF UsesCache(q.config) THEN Used(useOrder, q.cacheKey)
                            ELSE useOrder, st1.cache)
     /\ ret' = NoRet
     /\ UNCHANGED <<maxCacheSize, interceptors, now, aborted, NotApi>>

\* reading the body fails: it is not the JSON its content type announces, or
\* the signal of a fetch() was aborted before the body was read
ParseFail(r, err) ==
  LET q == req[r]
  IN /\ q.pc = "responded"
     /\ err = "AbortError" => (~UsesXHR(q.config) /\ q.config.signal \in aborted)
     /\ req' = [req EXCEPT ![r] = Fail(q, err)]
     /\ ret' = NoRet
     /\ UNCHANGED <<maxCacheSize, interceptors, cache, cacheAccessOrder, now, aborted, useOrder, NotApi>>

----------------------------------------------------------------------------
(* ApiInstance: the public cache operations *)

getCache(key) ==
  LET st1 == getCacheEntry(State, key)
      had == key \in DOMAIN cache
  IN /\ cache' = st1.cache
     /\ cacheAccessOrder' = st1.order
     /\ ret' = [op |-> "getCache", key |-> key,
                value |-> IF had THEN cache[key].data ELSE Undefined,
                at |-> now,
                entry |-> IF had THEN cache[key] ELSE NoEntry]
     /\ useOrder' = Cached(IF had THEN Used(useOrder, key) ELSE useOrder, st1.cache)
     /\ UNCHANGED <<maxCacheSize, interceptors, now, req, aborted, NotApi>>

setCache(key, data, ttl) ==
  LET st1 == setCacheEntry(State, key, [data |-> data, timestamp |-> now, ttl |-> ttl])
  IN /\ cache' = st1.cache
     /\ cacheAccessOrder' = st1.order
     /\ ret' = NoRet
     /\ useOrder' = Cached(Used(useOrder, key), st1.cache)
     /\ UNCHANGED <<maxCacheSize, interceptors, now, req, aborted, NotApi>>

removeCache(key) ==
  LET st1 == removeCacheEntry(State, key)
  IN /\ cache' = st1.cache
     /\ cacheAccessOrder' = st1.order
     /\ ret' = NoRet
     /\ useOrder' = Cached(useOrder, st1.cache)
     /\ UNCHANGED <<maxCacheSize, interceptors, now, req, aborted, NotApi>>

clearCache ==
  /\ cache' = EmptyMap
  /\ cacheAccessOrder' = << >>
  /\ ret' = NoRet
  /\ useOrder' = << >>
  /\ UNCHANGED <<maxCacheSize, interceptors, now, req, aborted, NotApi>>

\* time passes
Tick(maxTime) ==
  /\ now + TickMs <= maxTime
  /\ now' = now + TickMs
  /\ ret' = NoRet
  /\ UNCHANGED <<maxCacheSize, interceptors, cache, cacheAccessOrder, req, aborted, useOrder, NotApi>>

----------------------------------------------------------------------------
(* The cache specification: one instance, its cache operations and cached  *)
(* and uncached requests, with the clock.                                  *)

Get(url, enabled, revalidate) ==
  [NoConfig EXCEPT !.url = url, !.method = "GET",
                   !.cache = [enabled |-> enabled, revalidate |-> revalidate]]
Post(url, enabled, revalidate) ==
  [NoConfig EXCEPT !.url = url, !.method = "POST",
                   !.cache = [enabled |-> enabled, revalidate |-> revalidate]]

\* request configs tried: cached GETs with revalidate 0 and without
\* revalidate, and a POST that asks for the cache
CacheConfigs ==
  {Get(UrlA, TRUE, 0), Get(UrlB, TRUE, Undefined), Post(UrlA, TRUE, Undefined)}

\* keys given to setCache, getCache and removeCache: "" and the key of GET /a
KeyOfA == buildcacheKey(Get(UrlA, TRUE, Undefined))
CacheKeys == {EmptyStr, KeyOfA}
\* setCache(key, data, ttl) calls tried: a ttl of one tick for the key of GET /a
ManualInputs == {<<k, Undefined>> : k \in CacheKeys} \cup {<<KeyOfA, TickMs>>}
ServerData == 1
ManualData == 2

InitCache ==
  /\ maxCacheSize \in {Constructor(n) : n \in 1..MaxN}
  /\ interceptors = NoInterceptors
  /\ cache = EmptyMap
  /\ cacheAccessOrder = << >>
  /\ now = 0
  /\ req = [r \in 1..MaxReq |-> IdleRequest]
  /\ aborted = {}
  /\ ret = NoRet
  /\ useOrder = << >>
  /\ pair = <<NoConfig, NoConfig>>
  /\ keys = << >>
  /\ pendingRequests = EmptyMap
  /\ hooks = << >>
  /\ calls = << >>
  /\ localStorage = EmptyMap
  /\ document = NoDocument

NextCache ==
  \/ \E in \in ManualInputs : setCache(in[1], ManualData, in[2])
  \/ \E key \in CacheKeys : getCache(key)
  \/ \E key \in CacheKeys : removeCache(key)
  \/ clearCache
  \/ \E r \in 1..MaxReq, config \in CacheConfigs : Request(r, config)
  \/ \E r \in 1..MaxReq : RequestLookup(r)
  \/ \E r \in 1..MaxReq : TransportOk(r, ServerData)
  \/ \E r \in 1..MaxReq : RequestFinish(r)
  \/ Tick(MaxTimeCache)

SpecCache == InitCache /\ [][NextCache]_vars

----------------------------------------------------------------------------
(* The key specification: buildcacheKey applied to pairs of configs *)

\* "/" followed by KeyStringLimit times "a": every key string of such a url
\* is longer than the limit
LongPath == <<47>> \o [i \in 1..KeyStringLimit |-> 97]
UrlLongAa == LongPath \o <<65, 97>>    \* ...aAa
UrlLongBB == LongPath \o <<66, 66>>    \* ...aBB

NoParams == [defined |-> FALSE, entries |-> << >>]
Params(entries) == [defined |-> TRUE, entries |-> entries]

KeyUrls == {UrlA, UrlB, UrlLongAa, UrlLongBB}
\* undefined, {}, {p: 1}, {p: 12}
KeyParams == {NoParams, Params(<< >>), Params(<< <<(<<112>>), 1>> >>),
              Params(<< <<(<<112>>), 12>> >>)}
KeyConfigs ==
  {[NoConfig EXCEPT !.url = u, !.params = ps, !.method = m] :
     u \in KeyUrls, ps \in KeyParams, m \in {"GET", "POST"}}

InitKey ==
  /\ maxCacheSize = Constructor(Undefined)
  /\ interceptors = NoInterceptors
  /\ cache = EmptyMap
  /\ cacheAccessOrder = << >>
  /\ now = 0
  /\ req = [r \in 1..MaxReq |-> IdleRequest]
  /\ aborted = {}
  /\ ret = NoRet
  /\ useOrder = << >>
  /\ pair \in KeyConfigs \X KeyConfigs
  /\ keys = << >>
  /\ pendingRequests = EmptyMap
  /\ hooks = << >>
  /\ calls = << >>
  /\ localStorage = EmptyMap
  /\ document = NoDocument

BuildKeys ==
  /\ keys = << >>
  /\ keys' = <<buildcacheKey(pair[1]), buildcacheKey(pair[2])>>
  /\ UNCHANGED <<pair, NotKey>>

NextKey == BuildKeys

SpecKey == InitKey /\ [][NextKey]_vars

----------------------------------------------------------------------------
(* The retry specification: one request through fetchWithRetry, with the   *)
(* clock and the caller's AbortController.                                 *)

MaxRetry == 2          \* largest retry option tried
MaxTimeRetry == 800    \* the clock stops here in the retry specification

TheSignal == 1

\* the caller aborts the controller whose signal the request carries
Abort(c) ==
  /\ c \notin aborted
  /\ aborted' = aborted \cup {c}
  /\ ret' = NoRet
  /\ UNCHANGED <<maxCacheSize, interceptors, cache, cacheAccessOrder, now, req, useOrder, NotApi>>

RetryConfigs ==
  {[NoConfig EXCEPT !.url = UrlA, !.method = "POST", !.retry = n, !.signal = TheSignal] :
     n \in {Undefined} \cup 0..MaxRetry}

TransportErrors == {"TypeError", "ApiMeta"}

InitRetry ==
  /\ maxCacheSize = Constructor(Undefined)
  /\ interceptors = NoInterceptors
  /\ cache = EmptyMap
  /\ cacheAccessOrder = << >>
  /\ now = 0
  /\ req = [r \in 1..MaxReq |-> IdleRequest]
  /\ aborted = {}
  /\ ret = NoRet
  /\ useOrder = << >>
  /\ pair = <<NoConfig, NoConfig>>
  /\ keys = << >>
  /\ pendingRequests = EmptyMap
  /\ hooks = << >>
  /\ calls = << >>
  /\ localStorage = EmptyMap
  /\ document = NoDocument

NextRetry ==
  \/ \E config \in RetryConfigs : Request(1, config)
  \/ RequestLookup(1)
  \/ TransportOk(1, ServerData)
  \/ \E err \in TransportErrors : TransportFail(1, err)
  \/ TransportAbort(1)
  \/ RetryWake(1)
  \/ RequestFinish(1)
  \/ ParseFail(1, "AbortError")
  \/ Abort(TheSignal)
  \/ Tick(MaxTimeRetry)

SpecRetry == InitRetry /\ [][NextRetry]_vars

----------------------------------------------------------------------------
(* The pipeline specification: one request at a time through request()     *)
(* with every combination of the interceptors tried, the cache, one retry, *)
(* the clock and the caller's AbortController.                             *)

MaxTimePipeline == 200   \* the clock stops here in the pipeline specification

InterceptorChoices ==
  [request : {"none", "rewrite", "throw"},
   response : {"none", "replace", "throw"},
   error : {"none", "rethrow", "recover"}]

\* request configs tried: a cached GET without retry and a POST with one retry
PipelineConfigs ==
  {[Get(UrlA, TRUE, Undefined) EXCEPT !.signal = TheSignal],
   [Post(UrlA, FALSE, Undefined) EXCEPT !.signal = TheSignal, !.retry = 1]}

BodyErrors == {"SyntaxError", "AbortError"}

\* setInterceptors(interceptors) is called once, before the first request
InitPipeline ==
  /\ maxCacheSize = Constructor(Undefined)
  /\ interceptors \in InterceptorChoices
  /\ cache = EmptyMap
  /\ cacheAccessOrder = << >>
  /\ now = 0
  /\ req = [r \in 1..MaxReq |-> IdleRequest]
  /\ aborted = {}
  /\ ret = NoRet
  /\ useOrder = << >>
  /\ pair = <<NoConfig, NoConfig>>
  /\ keys = << >>
  /\ pendingRequests = EmptyMap
  /\ hooks = << >>
  /\ calls = << >>
  /\ localStorage = EmptyMap
  /\ document = NoDocument

NextPipeline ==
  \/ \E r \in 1..MaxReq, config \in PipelineConfigs : Request(r, config)
  \/ \E r \in 1..MaxReq : RequestLookup(r)
  \/ \E r \in 1..MaxReq : TransportOk(r, ServerData)
  \/ \E r \in 1..MaxReq : TransportFail(r, "TypeError")
  \/ \E r \in 1..MaxReq : TransportAbort(r)
  \/ \E r \in 1..MaxReq : RetryWake(r)
  \/ \E r \in 1..MaxReq : RequestFinish(r)
  \/ \E r \in 1..MaxReq, err \in BodyErrors : ParseFail(r, err)
  \/ Abort(TheSignal)
  \/ Tick(MaxTimePipeline)

SpecPipeline == InitPipeline /\ [][NextPipeline]_vars

----------------------------------------------------------------------------
(* useMutation: mutate() and the module-level pendingRequests map.  Call m *)
(* creates AbortController m and, when it starts a request, request m.     *)

MaxHooks == 2        \* useMutation instances
MaxCalls == 3        \* mutate() calls in one behaviour

\* a value that may be null: a string (Null) or a number (NullNumber)
Null == [some |-> FALSE, v |-> << >>]
NullNumber == [some |-> FALSE, v |-> 0]
Some(v) == [some |-> TRUE, v |-> v]

\* a TProgress, and the null of the progress state
NoProgress == [loaded |-> 0, total |-> 0, percentage |-> 0]
NullProgress == [some |-> FALSE, v |-> NoProgress]

\* the TProgress fetchWithXHR hands to the callback for a progress event:
\* total and percentage are 0 unless e.lengthComputable, the percentage is
\* Math.round((e.loaded / e.total) * 100)
Progress(loaded, total, lengthComputable) ==
  [loaded |-> loaded,
   total |-> IF lengthComputable THEN total ELSE 0,
   percentage |-> IF lengthComputable THEN (200 * loaded + total) \div (2 * total) ELSE 0]

\* useState: { isLoading: false, cacheKey: null, progress: null }
InitialMutationState == [isLoading |-> FALSE, cacheKey |-> Null, progress |-> NullProgress]

NoCall == [pc |-> "idle", hook |-> 0, key |-> EmptyStr, awaits |-> 0, result |-> NoResult]

MethodChars(method) ==
  CASE method = "GET" -> <<71, 69, 84>>
    [] method = "POST" -> <<80, 79, 83, 84>>
    [] method = "PUT" -> <<80, 85, 84>>
    [] method = "PATCH" -> <<80, 65, 84, 67, 72>>
    [] method = "DELETE" -> <<68, 69, 76, 69, 84, 69>>

\* JSON.stringify({ url, method, request }); an undefined request is left out
RequestKey(url, method, request) ==
  <<123, 34, 117, 114, 108, 34, 58>> \o JsonString(url)
  \o <<44, 34, 109, 101, 116, 104, 111, 100, 34, 58>> \o JsonString(MethodChars(method))
  \o (IF request.defined
        THEN <<44, 34, 114, 101, 113, 117, 101, 115, 116, 34, 58>> \o JsonParams(request.entries)
        ELSE << >>)
  \o <<125>>

\* mutate(request) up to its first await, or to its return when the key is
\* pending; the finally block runs in both cases
mutate(m, h, request) ==
  LET hook == hooks[h]
      method == IF hook.method = "undefined" THEN "GET" ELSE hook.method
      requestKey == RequestKey(hook.url, method, request)
      pending == requestKey \in DOMAIN pendingRequests
      shouldTrackUpload == hook.progress = "upload"
      shouldTrackDownload == hook.progress = "download"
      config == IF method = "GET"
                  THEN [NoConfig EXCEPT !.url = hook.url, !.method = "GET",
                                        !.params = request, !.signal = m,
                                        !.onDownload = shouldTrackDownload]
                  ELSE [NoConfig EXCEPT !.url = hook.url, !.method = method,
                                        !.body = request, !.signal = m,
                                        !.onUpload = shouldTrackUpload]
  IN /\ calls[m].pc = "idle"
     /\ \A k \in 1..(m - 1) : calls[k].pc # "idle"
     /\ aborted' = IF hook.abortControllerRef # NoSignal
                     THEN aborted \cup {hook.abortControllerRef} ELSE aborted
     /\ hooks' = [hooks EXCEPT ![h].abortControllerRef = m,
                               ![h].state = [@ EXCEPT !.isLoading = TRUE,
                                                      !.progress = NullProgress]]
     /\ IF pending
          THEN /\ calls' = [calls EXCEPT ![m] =
                              [NoCall EXCEPT !.pc = "joined", !.hook = h, !.key = requestKey,
                                             !.awaits = pendingRequests[requestKey]]]
               /\ pendingRequests' = MapDelete(pendingRequests, requestKey)
               /\ req' = req
          ELSE /\ calls' = [calls EXCEPT ![m] =
                              [NoCall EXCEPT !.pc = "awaiting", !.hook = h, !.key = requestKey,
                                             !.awaits = m]]
               /\ pendingRequests' = MapSet(pendingRequests, requestKey, m)
               /\ req' = [req EXCEPT ![m] = Call(config)]
     /\ ret' = NoRet
     /\ UNCHANGED <<maxCacheSize, interceptors, cache, cacheAccessOrder, now, useOrder, keyVars, pageVars>>

\* mutate() after `await requestPromise`: the state update of the try or the
\* catch block, then the finally block
mutateSettles(m) ==
  LET c == calls[m]
      result == req[c.awaits].result
  IN /\ c.pc = "awaiting"
     /\ req[c.awaits].pc \in {"resolved", "rejected"}
     /\ hooks' = [hooks EXCEPT ![c.hook].state =
                    IF result.kind = "ok"
                      THEN [isLoading |-> FALSE, cacheKey |-> Some(result.cacheKey),
                            progress |-> NullProgress]
                      ELSE [isLoading |-> FALSE, cacheKey |-> Null,
                            progress |-> NullProgress]]
     /\ pendingRequests' = MapDelete(pendingRequests, c.key)
     /\ calls' = [calls EXCEPT ![m] = [c EXCEPT !.pc = req[c.awaits].pc, !.result = result]]
     /\ ret' = NoRet
     /\ UNCHANGED <<maxCacheSize, interceptors, cache, cacheAccessOrder, now, req, aborted, useOrder, keyVars, pageVars>>

\* the promise of a mutate() that returned the pending promise settles with it
joinedSettles(m) ==
  LET c == calls[m]
  IN /\ c.pc = "joined"
     /\ req[c.awaits].pc \in {"resolved", "rejected"}
     /\ calls' = [calls EXCEPT ![m] = [c EXCEPT !.pc = req[c.awaits].pc,
                                                !.result = req[c.awaits].result]]
     /\ ret' = NoRet
     /\ UNCHANGED <<maxCacheSize, interceptors, cache, cacheAccessOrder, now, req, aborted, useOrder,
                    keyVars, pageVars, pendingRequests, hooks>>

\* the XHR of request r reports progress: the callback mutate gave to the
\* request, setState(s => ({ ...s, progress })), runs on the hook of call r
ProgressEvent(r, progress) ==
  /\ req[r].pc = "fetching"
  /\ UsesXHR(req[r].config)
  /\ hooks[calls[r].hook].state.progress # Some(progress)
  /\ hooks' = [hooks EXCEPT ![calls[r].hook].state.progress = Some(progress)]
  /\ ret' = NoRet
  /\ UNCHANGED <<maxCacheSize, interceptors, cache, cacheAccessOrder, now, req, aborted,
                 useOrder, keyVars, pageVars, pendingRequests, calls>>

\* the progress events tried: 1 of 2 bytes
ProgressEvents == {Progress(1, 2, TRUE)}
\* options.progress of the hooks tried
ProgressOptions == {"undefined", "upload", "download"}

\* mutate(request) payloads tried: {p: 1} and {p: 2}
Payloads == {Params(<< <<(<<112>>), 1>> >>), Params(<< <<(<<112>>), 2>> >>)}
\* options.method of the hooks tried: none (a GET) and POST
MutationMethods == {"undefined", "POST"}

InitMutate ==
  /\ maxCacheSize = Constructor(Undefined)
  /\ interceptors = NoInterceptors
  /\ cache = EmptyMap
  /\ cacheAccessOrder = << >>
  /\ now = 0
  /\ req = [r \in 1..MaxCalls |-> IdleRequest]
  /\ aborted = {}
  /\ ret = NoRet
  /\ useOrder = << >>
  /\ pair = <<NoConfig, NoConfig>>
  /\ keys = << >>
  /\ pendingRequests = EmptyMap
  /\ \E method \in MutationMethods, progress \in ProgressOptions :
       hooks = [h \in 1..MaxHooks |->
                  [url |-> UrlA, method |-> method, progress |-> progress,
                   abortControllerRef |-> NoSignal, state |-> InitialMutationState]]
  /\ calls = [m \in 1..MaxCalls |-> NoCall]
  /\ localStorage = EmptyMap
  /\ document = NoDocument

NextMutate ==
  \/ \E m \in 1..MaxCalls, h \in 1..MaxHooks, request \in Payloads : mutate(m, h, request)
  \/ \E m \in 1..MaxCalls : mutateSettles(m)
  \/ \E m \in 1..MaxCalls : joinedSettles(m)
  \/ \E r \in 1..MaxCalls : RequestLookup(r)
  \/ \E r \in 1..MaxCalls : TransportOk(r, ServerData)
  \/ \E r \in 1..MaxCalls : TransportFail(r, "TypeError")
  \/ \E r \in 1..MaxCalls : TransportAbort(r)
  \/ \E r \in 1..MaxCalls : RequestFinish(r)
  \/ \E r \in 1..MaxCalls : ParseFail(r, "AbortError")
  \/ \E r \in 1..MaxCalls, progress \in ProgressEvents : ProgressEvent(r, progress)

SpecMutate == InitMutate /\ [][NextMutate]_vars

----------------------------------------------------------------------------
(* useInfiniteFetch: one hook instance.  Call m of fetchPage creates        *)
(* AbortController m and request m; a fetchNextPage that returns at its     *)
(* guard uses up a call number too.                                         *)

MaxPageCalls == 4    \* fetchPage and fetchNextPage calls in one behaviour
LastOffset == 2      \* the caller's setOffset returns null from this offset on

OffsetKey == <<111, 102, 102, 115, 101, 116>>     \* offsetKey ?? 'offset'
InitialOffset == 0

\* the page the server answers with for a request: numbered by its offset
PageOf(config) == 10 + config.params.entries[1][2]

\* the caller's setOffset(lastItems, allItems, lastOffset): the next offset,
\* null after the last page
SetOffset(lastItems, allItems, lastOffset) ==
  IF lastOffset >= LastOffset THEN NullNumber ELSE Some(lastOffset + 1)

NoArgs == [lastItems |-> Undefined, allItems |-> << >>, lastOffset |-> Undefined]

\* the useState values of the first render
InitialInfiniteState ==
  [items |-> << >>, offset |-> InitialOffset, isLoading |-> FALSE,
   isFetchingNextPage |-> FALSE, hasNextPage |-> TRUE, error |-> "null"]

\* the hook: its options, its ref, its state, the items captured by the
\* fetchPage closure (useCallback keeps the closure of the first render while
\* url, config and offsetKey stay the same), and observations: how often the
\* caller's setOffset was called and with which arguments last
NewInfiniteHook ==
  [url |-> UrlA, initialOffset |-> InitialOffset, mounted |-> FALSE,
   abortControllerRef |-> NoSignal, state |-> InitialInfiniteState,
   closureItems |-> InitialInfiniteState.items,
   setOffsetCalls |-> 0, setOffsetArgs |-> NoArgs]

\* a call: its position, who made it, its arguments, and observations: the
\* page it got, what setOffset returned for it, and whether every earlier
\* call had finished when it was made
NoPageCall == [pc |-> "idle", by |-> "none", append |-> FALSE, offsetValue |-> Undefined,
               data |-> Undefined, nextOffset |-> NullNumber, alone |-> TRUE]

\* the new page goes in front
AccumulateFront(prev, data, append) == IF append THEN <<data>> \o prev ELSE <<data>>

\* prev => (append ? [...prev, data] : [data])
Accumulate(prev, data, append) == IF append THEN Append(prev, data) ELSE <<data>>

NextCall(m) == calls[m].pc = "idle" /\ \A k \in 1..(m - 1) : calls[k].pc # "idle"

\* the event loop: once a request has settled, the continuation of the hook
\* function awaiting it runs before any other code calls into the hook, and
\* a task (a render with its effects, an unmount) starts only after the
\* microtask that resumes request() behind handleInterceptors has run, while
\* a call made from the code that made the call before comes before it
ContinuationsRun ==
  \A m \in DOMAIN calls :
    calls[m].pc = "awaiting" => req[m].pc \notin {"resolved", "rejected"}
MicrotasksRun ==
  \A m \in DOMAIN calls :
    calls[m].pc = "awaiting" => req[m].pc \notin {"called", "resolved", "rejected"}

\* without a request interceptor the requests resume behind
\* handleInterceptors in the order they were called
LookupInOrder(r) ==
  /\ \A k \in 1..(r - 1) : req[k].pc # "called"
  /\ RequestLookup(r)

\* fetchPage(offsetValue, append) up to its await, called by `by` with the
\* hook as `hook`
fetchPage(m, hook, by, offsetValue, append) ==
  LET config == [Get(hook.url, FALSE, Undefined) EXCEPT
                   !.params = Params(<< <<OffsetKey, offsetValue>> >>), !.signal = m]
  IN /\ aborted' = IF hook.abortControllerRef # NoSignal
                     THEN aborted \cup {hook.abortControllerRef} ELSE aborted
     /\ hooks' = [hooks EXCEPT ![1] =
                    [hook EXCEPT !.abortControllerRef = m,
                                 !.state.isLoading = IF append THEN @ ELSE TRUE,
                                 !.state.isFetchingNextPage = IF append THEN TRUE ELSE @]]
     /\ calls' = [calls EXCEPT ![m] =
                    [NoPageCall EXCEPT !.pc = "awaiting", !.by = by, !.append = append,
                                       !.offsetValue = offsetValue,
                                       !.alone = \A k \in 1..(m - 1) :
                                                   calls[k].pc # "awaiting"]]
     /\ req' = [req EXCEPT ![m] = Call(config)]
     /\ ret' = NoRet
     /\ UNCHANGED <<maxCacheSize, interceptors, cache, cacheAccessOrder, now, useOrder,
                    keyVars, pageVars, pendingRequests>>

\* the mount effect: fetchPage(initialOffset)
MountInfinite(m) ==
  /\ NextCall(m)
  /\ ~hooks[1].mounted
  /\ fetchPage(m, [hooks[1] EXCEPT !.mounted = TRUE], "mount", hooks[1].initialOffset, FALSE)

\* fetchNextPage(): returns at once unless hasNextPage && !isFetchingNextPage
fetchNextPage(m) ==
  LET hook == hooks[1]
  IN /\ NextCall(m)
     /\ ContinuationsRun
     /\ hook.mounted
     /\ IF ~hook.state.hasNextPage \/ hook.state.isFetchingNextPage
          THEN /\ calls' = [calls EXCEPT ![m] =
                              [NoPageCall EXCEPT !.pc = "returned", !.by = "fetchNextPage"]]
               /\ ret' = NoRet
               /\ UNCHANGED <<maxCacheSize, interceptors, cache, cacheAccessOrder, now, req,
                              aborted, useOrder, keyVars, pageVars, pendingRequests, hooks>>
          ELSE fetchPage(m, hook, "fetchNextPage", hook.state.offset, TRUE)

\* refetch(): setItems([]), setOffsetState(initialOffset), setHasNextPage(true)
\* and fetchPage(initialOffset, false)
refetchPages(m) ==
  LET hook == hooks[1]
  IN /\ NextCall(m)
     /\ ContinuationsRun
     /\ hook.mounted
     /\ fetchPage(m, [hook EXCEPT !.state.items = << >>,
                                   !.state.offset = hook.initialOffset,
                                   !.state.hasNextPage = TRUE],
                  "refetch", hook.initialOffset, FALSE)

\* fetchPage after `await instance.get`: the try, catch and finally blocks
fetchPageSettles(m) ==
  LET c == calls[m]
      hook == hooks[1]
      result == req[m].result
      data == result.data
      allItems == Accumulate(hook.closureItems, data, c.append)
      nextOffset == SetOffset(data, allItems, c.offsetValue)
      st == hook.state
      done == [st EXCEPT !.isLoading = FALSE, !.isFetchingNextPage = FALSE]
  IN /\ c.pc = "awaiting"
     /\ req[m].pc \in {"resolved", "rejected"}
     /\ IF result.kind = "ok"
          THEN /\ hooks' = [hooks EXCEPT ![1] =
                    [hook EXCEPT
                       !.state = [done EXCEPT
                                    !.items = Accumulate(st.items, data, c.append),
                                    !.hasNextPage = nextOffset.some,
                                    !.offset = IF nextOffset.some THEN nextOffset.v ELSE @,
                                    !.error = "null"],
                       !.setOffsetCalls = @ + 1,
                       !.setOffsetArgs = [lastItems |-> data, allItems |-> allItems,
                                          lastOffset |-> c.offsetValue]]]
               /\ calls' = [calls EXCEPT ![m] =
                              [c EXCEPT !.pc = "ok", !.data = data, !.nextOffset = nextOffset]]
          ELSE /\ hooks' = [hooks EXCEPT ![1].state =
                              [done EXCEPT !.error = IF result.error = "AbortError"
                                                       THEN @ ELSE result.error]]
               /\ calls' = [calls EXCEPT ![m] =
                              [c EXCEPT !.pc = IF result.error = "AbortError"
                                                 THEN "aborted" ELSE "failed"]]
     /\ ret' = NoRet
     /\ UNCHANGED <<maxCacheSize, interceptors, cache, cacheAccessOrder, now, req, aborted,
                    useOrder, keyVars, pageVars, pendingRequests>>

\* the server answers request r with the page at the offset asked for
TransportPage(r) == req[r].pc = "fetching" /\ TransportOk(r, PageOf(req[r].config))

InitInfinite ==
  /\ maxCacheSize = Constructor(Undefined)
  /\ interceptors = NoInterceptors
  /\ cache = EmptyMap
  /\ cacheAccessOrder = << >>
  /\ now = 0
  /\ req = [r \in 1..MaxPageCalls |-> IdleRequest]
  /\ aborted = {}
  /\ ret = NoRet
  /\ useOrder = << >>
  /\ pair = <<NoConfig, NoConfig>>
  /\ keys = << >>
  /\ pendingRequests = EmptyMap
  /\ hooks = <<NewInfiniteHook>>
  /\ calls = [m \in 1..MaxPageCalls |-> NoPageCall]
  /\ localStorage = EmptyMap
  /\ document = NoDocument

NextInfinite ==
  \/ \E m \in 1..MaxPageCalls : MountInfinite(m)
  \/ \E m \in 1..MaxPageCalls : fetchNextPage(m)
  \/ \E m \in 1..MaxPageCalls : refetchPages(m)
  \/ \E m \in 1..MaxPageCalls : fetchPageSettles(m)
  \/ \E r \in 1..MaxPageCalls : LookupInOrder(r)
  \/ \E r \in 1..MaxPageCalls : TransportPage(r)
  \/ \E r \in 1..MaxPageCalls : TransportFail(r, "TypeError")
  \/ \E r \in 1..MaxPageCalls : TransportAbort(r)
  \/ \E r \in 1..MaxPageCalls : RequestFinish(r)
  \/ \E r \in 1..MaxPageCalls : ParseFail(r, "AbortError")

SpecInfinite == InitInfinite /\ [][NextInfinite]_vars

----------------------------------------------------------------------------
(* useFetch: one hook instance.  Call m of fetchData creates               *)
(* AbortController m and request m; a fetchData that returns at its guard  *)
(* uses up a call number too.                                              *)

MaxFetchCalls == 3   \* fetchData calls in one behaviour

\* the state fetchData returns at its guard
DisabledState ==
  [data |-> NullNumber, error |-> "null", isLoading |-> FALSE, cacheKey |-> Null]

\* useState: { data: null, error: null, isLoading: enabled, cacheKey: null }
InitialFetchState(enabled) ==
  [data |-> NullNumber, error |-> "null", isLoading |-> enabled, cacheKey |-> Null]

\* the new state keeps the loading flag
SuccessStateLoading(response) ==
  [data |-> Some(response.data), error |-> "null", isLoading |-> TRUE,
   cacheKey |-> Some(response.cacheKey)]

\* the newState of the try block and of the catch block
SuccessState(response) ==
  [data |-> Some(response.data), error |-> "null", isLoading |-> FALSE,
   cacheKey |-> Some(response.cacheKey)]
FailureState(err) ==
  [data |-> NullNumber, error |-> err, isLoading |-> FALSE, cacheKey |-> Null]

\* the hook: its arguments (url, config.cache.enabled, enabled), whether it is
\* mounted ("no", "yes", "gone"), its ref and its state
NewFetchHook(enabled, cacheEnabled) ==
  [url |-> UrlA, enabled |-> enabled, cacheEnabled |-> cacheEnabled, mounted |-> "no",
   abortControllerRef |-> NoSignal, state |-> InitialFetchState(enabled)]

\* a call: its position, who made it, and the state it returned (for a call
\* that ended with an abort error the value returned is not observed)
NoFetchCall == [pc |-> "idle", by |-> "none", returned |-> DisabledState]

\* refetch is ignored at the guard
SkipsDisabled(enabled, refetch) == ~enabled

\* if (!enabled && !refetch) return ...
Skips(enabled, refetch) == ~enabled /\ ~refetch

\* the data the server answers request r with
DataOf(r) == 20 + r

\* fetchData(refetch) up to its await or to its return at the guard, called
\* by `by` with the hook as `hook`; cleanup: the cleanup of the effect ran
\* just before
fetchData(m, hook, by, refetch, cleanup) ==
  LET skips == Skips(hook.enabled, refetch)
      config == [Get(hook.url, hook.cacheEnabled, Undefined) EXCEPT !.signal = m]
  IN /\ aborted' = IF (cleanup \/ ~skips) /\ hook.abortControllerRef # NoSignal
                     THEN aborted \cup {hook.abortControllerRef} ELSE aborted
     /\ IF skips
          THEN /\ hooks' = [hooks EXCEPT ![1] = hook]
               /\ calls' = [calls EXCEPT ![m] =
                              [NoFetchCall EXCEPT !.pc = "returned", !.by = by]]
               /\ req' = req
          ELSE /\ hooks' = [hooks EXCEPT ![1] =
                              [hook EXCEPT !.abortControllerRef = m,
                                           !.state.isLoading = TRUE]]
               /\ calls' = [calls EXCEPT ![m] =
                              [NoFetchCall EXCEPT !.pc = "awaiting", !.by = by]]
               /\ req' = [req EXCEPT ![m] = Call(config)]
     /\ ret' = NoRet
     /\ UNCHANGED <<maxCacheSize, interceptors, cache, cacheAccessOrder, now, useOrder,
                    keyVars, pageVars, pendingRequests>>

\* the effect on mount: fetchData()
MountFetch(m) ==
  /\ NextCall(m)
  /\ hooks[1].mounted = "no"
  /\ fetchData(m, [hooks[1] EXCEPT !.mounted = "yes"], "mount", FALSE, FALSE)

\* the url changes: fetchData is made anew, the cleanup of the effect aborts
\* the controller and the effect calls fetchData()
ChangeUrl(m, url) ==
  /\ NextCall(m)
  /\ MicrotasksRun
  /\ hooks[1].mounted = "yes"
  /\ url # hooks[1].url
  /\ fetchData(m, [hooks[1] EXCEPT !.url = url], "change", FALSE, TRUE)

\* refetch: () => fetchData(true)
refetch(m) ==
  /\ NextCall(m)
  /\ ContinuationsRun
  /\ hooks[1].mounted = "yes"
  /\ fetchData(m, hooks[1], "refetch", TRUE, FALSE)

\* the hook unmounts: the cleanup of the effect
Unmount ==
  /\ MicrotasksRun
  /\ hooks[1].mounted = "yes"
  /\ hooks' = [hooks EXCEPT ![1].mounted = "gone"]
  /\ aborted' = IF hooks[1].abortControllerRef # NoSignal
                  THEN aborted \cup {hooks[1].abortControllerRef} ELSE aborted
  /\ ret' = NoRet
  /\ UNCHANGED <<maxCacheSize, interceptors, cache, cacheAccessOrder, now, req, useOrder,
                 keyVars, pageVars, pendingRequests, calls>>

\* fetchData after `await instance.get`: the try block or the catch block
fetchDataSettles(m) ==
  LET c == calls[m]
      result == req[m].result
      newState == IF result.kind = "ok" THEN SuccessState(result)
                  ELSE FailureState(result.error)
  IN /\ c.pc = "awaiting"
     /\ req[m].pc \in {"resolved", "rejected"}
     /\ IF result.kind = "error" /\ result.error = "AbortError"
          THEN /\ calls' = [calls EXCEPT ![m].pc = "aborted"]
               /\ hooks' = hooks
          ELSE /\ calls' = [calls EXCEPT ![m] =
                              [c EXCEPT !.pc = IF result.kind = "ok" THEN "ok" ELSE "failed",
                                        !.returned = newState]]
               /\ hooks' = [hooks EXCEPT ![1].state = newState]
     /\ ret' = NoRet
     /\ UNCHANGED <<maxCacheSize, interceptors, cache, cacheAccessOrder, now, req, aborted,
                    useOrder, keyVars, pageVars, pendingRequests>>

\* the server answers request r
TransportData(r) == TransportOk(r, DataOf(r))

InitFetch ==
  /\ maxCacheSize = Constructor(Undefined)
  /\ interceptors = NoInterceptors
  /\ cache = EmptyMap
  /\ cacheAccessOrder = << >>
  /\ now = 0
  /\ req = [r \in 1..MaxFetchCalls |-> IdleRequest]
  /\ aborted = {}
  /\ ret = NoRet
  /\ useOrder = << >>
  /\ pair = <<NoConfig, NoConfig>>
  /\ keys = << >>
  /\ pendingRequests = EmptyMap
  /\ \E enabled \in BOOLEAN, cacheEnabled \in BOOLEAN :
       hooks = <<NewFetchHook(enabled, cacheEnabled)>>
  /\ calls = [m \in 1..MaxFetchCalls |-> NoFetchCall]
  /\ localStorage = EmptyMap
  /\ document = NoDocument

NextFetch ==
  \/ \E m \in 1..MaxFetchCalls : MountFetch(m)
  \/ \E m \in 1..MaxFetchCalls, url \in {UrlA, UrlB} : ChangeUrl(m, url)
  \/ \E m \in 1..MaxFetchCalls : refetch(m)
  \/ Unmount
  \/ \E m \in 1..MaxFetchCalls : fetchDataSettles(m)
  \/ \E r \in 1..MaxFetchCalls : LookupInOrder(r)
  \/ \E r \in 1..MaxFetchCalls : TransportData(r)
  \/ \E r \in 1..MaxFetchCalls : TransportFail(r, "TypeError")
  \/ \E r \in 1..MaxFetchCalls : TransportAbort(r)
  \/ \E r \in 1..MaxFetchCalls : RequestFinish(r)
  \/ \E r \in 1..MaxFetchCalls : ParseFail(r, "AbortError")

SpecFetch == InitFetch /\ [][NextFetch]_vars

----------------------------------------------------------------------------
(* Claims about the cache, checked under SpecCache *)

\* C1: the number of entries held in the cache never exceeds maxCacheSize
C1_SizeBounded == Cardinality(DOMAIN cache) <= maxCacheSize

\* C2: storing a new key into a full cache evicts exactly the least recently
\* used entry (by setCache, a getCache that found it, or a cached GET that
\* read or wrote it) and keeps every other entry
C2_EvictsLeastRecentlyUsed ==
  [][\A k \in DOMAIN cache' :
       (k \notin DOMAIN cache /\ Cardinality(DOMAIN cache) = maxCacheSize)
         => DOMAIN cache' = (DOMAIN cache \ {Head(useOrder)}) \cup {k}]_vars

\* an entry is unexpired while its age does not exceed its ttl
Unexpired(entry, t) == entry.ttl = Undefined \/ t - entry.timestamp <= entry.ttl

\* the step in which request r computes its key and looks the cache up
Looks(r) == req[r].pc = "called" /\ req'[r].pc # "called"
CachedGet(config) == config.method = "GET" /\ config.cache.enabled

\* C3: a GET with cache.enabled whose key holds an unexpired entry resolves
\* with fromCache = true and the stored data without any transport call, and
\* every response that came from the transport has fromCache = false
C3_FromCache ==
  /\ [][\A r \in DOMAIN req :
          LET key == buildcacheKey(req[r].config)
          IN (/\ Looks(r)
              /\ CachedGet(req[r].config)
              /\ key \in DOMAIN cache
              /\ Unexpired(cache[key], now))
             => /\ req'[r].pc = "resolved"
                /\ req'[r].result.fromCache
                /\ req'[r].result.data = cache[key].data
                /\ req'[r].fetches = 0]_vars
  /\ [](\A r \in DOMAIN req :
          req[r].pc = "resolved" => (req[r].result.fromCache <=> req[r].fetches = 0))

C3_Witness ==
  \E r \in DOMAIN req :
    /\ req[r].pc = "resolved"
    /\ req[r].result.fromCache
    /\ req[r].result.data = ManualData
    /\ req[r].fetches = 0
    /\ now > 0

\* C4: a cached GET never returns an entry whose age exceeds the revalidate
\* time it was stored with; such an entry is removed and the request goes to
\* the transport, for every revalidate value including 0
C4_NoStaleEntry ==
  [][\A r \in DOMAIN req :
       LET key == buildcacheKey(req[r].config)
       IN (/\ Looks(r)
           /\ CachedGet(req[r].config)
           /\ key \in DOMAIN cache
           /\ cache[key].ttl # Undefined
           /\ now - cache[key].timestamp > cache[key].ttl)
          => /\ key \notin DOMAIN cache'
             /\ req'[r].pc = "fetching"]_vars

\* C5: getCache(key) returns undefined for an entry stored with
\* setCache(key, data, ttl) once more than ttl milliseconds have passed
C5_GetCacheHonoursTtl ==
  (/\ ret.op = "getCache"
   /\ ret.entry.data = ManualData
   /\ ret.entry.ttl # Undefined
   /\ ret.at - ret.entry.timestamp > ret.entry.ttl)
  => ret.value = Undefined

----------------------------------------------------------------------------
(* Claim about the cache key, checked under SpecKey *)

\* C6: two request configs produce the same cache key if and only if they
\* have the same url and the same params (method does not matter), so two
\* requests that differ in url or params never share a cache entry
C6_KeyIffUrlAndParams ==
  keys # << >> =>
    (keys[1] = keys[2] <=> (pair[1].url = pair[2].url /\ pair[1].params = pair[2].params))

----------------------------------------------------------------------------
(* Claims about the retry loop, checked under SpecRetry *)

Settled(q) == q.pc \in {"resolved", "rejected"}

\* C7: a request with retry = n that reaches the retry loop makes at least
\* one and at most n + 1 transport attempts, stops at the first ok response,
\* and when every attempt fails with a non-abort error makes exactly n + 1
\* attempts and rejects with the error of the last attempt
C7_Attempts ==
  /\ [](\A r \in DOMAIN req :
          LET q == req[r]
              n == IF q.config.retry = Undefined THEN 0 ELSE q.config.retry
          IN /\ q.fetches <= n + 1
             /\ (q.pc \in {"fetching", "sleeping", "responded"}
                   \/ (Settled(q) /\ ~q.result.fromCache))
                  => q.fetches >= 1
             /\ q.pc \in {"responded", "resolved"} => q.lastOutcome = "ok"
             /\ (q.pc = "rejected" /\ q.result.error # "AbortError")
                  => /\ q.fetches = n + 1
                     /\ q.lastOutcome \in TransportErrors
                     /\ q.result.error = q.lastOutcome)
  /\ [][\A r \in DOMAIN req :
          (req[r].lastOutcome = "ok" /\ req'[r].pc # "called")
            => req'[r].fetches = req[r].fetches]_vars

C7_Witness ==
  \E r \in DOMAIN req :
    /\ req[r].pc = "rejected"
    /\ req[r].config.retry >= 2
    /\ req[r].fetches = req[r].config.retry + 1
    /\ req[r].result.error = "ApiMeta"

\* the wait after failed attempt k
BackoffMs(k) == 200 * 2 ^ k

\* C8: after failed attempt k < n the loop waits 200 * 2^k ms and the next
\* attempt never starts before the wait has elapsed; after the final failed
\* attempt there is no wait
C8_Backoff ==
  /\ [](\A r \in DOMAIN req :
          req[r].pc = "sleeping" => req[r].wakeAt = req[r].failedAt + BackoffMs(req[r].attempt))
  /\ [][\A r \in DOMAIN req :
          LET q == req[r]
              n == IF q.config.retry = Undefined THEN 0 ELSE q.config.retry
              fails == q.pc = "fetching" /\ req'[r].lastOutcome \in TransportErrors
          IN /\ (fails /\ q.attempt < n) => req'[r].pc = "sleeping" /\ req'[r].failedAt = now
             /\ (fails /\ q.attempt >= n) => req'[r].pc = "rejected"
             /\ (q.pc = "sleeping" /\ req'[r].pc # "sleeping")
                  => /\ now >= q.failedAt + BackoffMs(q.attempt)
                     /\ req'[r].pc = "fetching"
                     /\ req'[r].attempt = q.attempt + 1]_vars

C8_Witness ==
  \E r \in DOMAIN req :
    /\ req[r].pc = "fetching"
    /\ req[r].attempt = 2
    /\ now >= req[r].failedAt + 400
    /\ req[r].failedAt >= 200

----------------------------------------------------------------------------
(* Claims about request deduplication, checked under SpecMutate *)

\* a call is in flight while it waits for a request that has not settled and
\* has not been aborted
InFlight(c) ==
  /\ c.pc \in {"awaiting", "joined"}
  /\ req[c.awaits].pc \notin {"resolved", "rejected"}
  /\ req[c.awaits].config.signal \notin aborted

\* the step in which call m is made
Called(m) == calls[m].pc = "idle" /\ calls'[m].pc # "idle"

\* C9: a mutate call with the same (url, method, payload) as a mutate call
\* that is still in flight starts no second transport request and is given
\* the same pending result as that call
C9_Deduplicated ==
  [][\A m \in DOMAIN calls : \A m0 \in DOMAIN calls :
       (Called(m) /\ InFlight(calls[m0]) /\ calls[m0].key = calls'[m].key)
         => /\ req'[m] = req[m]
            /\ calls'[m].awaits = calls[m0].awaits]_vars

\* C10: a mutate call that joins an identical in-flight request does not
\* abort that request, and both callers receive the answer of that request
C10_JoinLeavesRequestRunning ==
  /\ [][\A m \in DOMAIN calls :
          (Called(m) /\ calls'[m].pc = "joined")
            => LET signal == req[calls'[m].awaits].config.signal
               IN signal \in aborted' => signal \in aborted]_vars
  /\ [](\A m \in DOMAIN calls :
          calls[m].pc \in {"resolved", "rejected"}
            => calls[m].result = req[calls[m].awaits].result)

----------------------------------------------------------------------------
(* Claims about the interceptors, checked under SpecPipeline *)

Registered(kind) == IF kind = "none" THEN 0 ELSE 1

\* the config the request interceptor returns for the config given
FinalConfig(given) ==
  IF interceptors.request = "rewrite" THEN RequestInterceptor(given) ELSE given

InTransport(q) == q.pc \in {"fetching", "sleeping", "responded"}

ErrorInterceptor(error) ==
  IF interceptors.error = "rethrow" THEN Rejected(HandledError)
  ELSE Resolved(RecoveredData, EmptyStr, FALSE)

\* C12: every error raised in request() (by the request interceptor, the
\* transport, the exhausted retries, an abort, the response interceptor or
\* the reading of the body) is passed exactly once to the error interceptor
\* registered and request() settles with what that interceptor returns or
\* throws; without an error interceptor request() rejects with the error
C12_ErrorInterceptor ==
  /\ [](\A r \in DOMAIN req :
          LET q == req[r]
          IN /\ Busy(r) => (q.raised = "none" /\ q.errRuns = 0)
             /\ (Settled(q) /\ q.raised = "none") => (q.errRuns = 0 /\ q.pc = "resolved")
             /\ (Settled(q) /\ q.raised # "none")
                  => IF interceptors.error = "none"
                       THEN q.errRuns = 0 /\ q.result = Rejected(q.raised)
                       ELSE /\ q.errRuns = 1
                            /\ q.errSeen = q.raised
                            /\ q.result = ErrorInterceptor(q.raised))
  /\ [][\A r \in DOMAIN req :
          LET q == req[r]
          IN /\ (q.pc = "fetching" /\ Settled(req'[r]))
                  => req'[r].raised = IF req'[r].lastOutcome = "ok"
                                        THEN InterceptorError ELSE req'[r].lastOutcome
             /\ (q.pc = "responded" /\ Settled(req'[r]) /\ req'[r].pc # "resolved")
                  => req'[r].raised \in BodyErrors
             /\ (~Busy(r) /\ req'[r] # q /\ interceptors.request = "throw")
                  => (Settled(req'[r]) /\ req'[r].raised = InterceptorError)]_vars

C12_Witness ==
  \E r \in DOMAIN req :
    /\ interceptors.error = "recover"
    /\ req[r].raised = "AbortError"
    /\ req[r].errRuns = 1
    /\ req[r].errSeen = "AbortError"
    /\ req[r].pc = "resolved"
    /\ req[r].result.data = RecoveredData

----------------------------------------------------------------------------
(* Claims about the infinite hook, checked under SpecInfinite *)

\* the fetchPage calls made so far, in the order they were made
RECURSIVE FetchesUpTo(_)
FetchesUpTo(n) ==
  IF n = 0 THEN << >>
  ELSE IF calls[n].pc \in {"idle", "returned"} THEN FetchesUpTo(n - 1)
  ELSE Append(FetchesUpTo(n - 1), n)
Fetches == FetchesUpTo(Len(calls))

\* the initial load and then only fetchNextPage calls, each made after the
\* one before had finished, and all of them successful
OneAfterAnother ==
  /\ Fetches # << >>
  /\ \A i \in DOMAIN Fetches :
       LET c == calls[Fetches[i]]
       IN /\ c.by = IF i = 1 THEN "mount" ELSE "fetchNextPage"
          /\ c.alone
          /\ c.pc = "ok"

\* C13: after the initial load and k further fetchNextPage calls that each
\* succeed one after another, data is the sequence of those k + 1 pages in
\* fetch order, the first page was requested with initialOffset and page i
\* with the offset that setOffset returned for page i - 1
C13_PagesInOrder ==
  OneAfterAnother =>
    /\ hooks[1].state.items = [i \in DOMAIN Fetches |-> calls[Fetches[i]].data]
    /\ \A i \in DOMAIN Fetches :
         LET c == calls[Fetches[i]]
         IN /\ c.data = 10 + c.offsetValue
            /\ c.offsetValue = IF i = 1 THEN hooks[1].initialOffset
                                ELSE calls[Fetches[i - 1]].nextOffset.v

C13_Witness ==
  /\ OneAfterAnother
  /\ Len(Fetches) = 3
  /\ hooks[1].state.items = <<10, 11, 12>>
  /\ ~hooks[1].state.hasNextPage

\* the step in which the fetchPage call m ends with a page
PageFetched(m) == calls[m].pc = "awaiting" /\ calls'[m].pc = "ok"

\* C14: after each successful page fetch setOffset is called exactly once
\* with lastItems = the page just fetched, allItems = all pages accumulated
\* so far including that page, in order, and lastOffset = the offset used
\* for that fetch
C14_SetOffsetArguments ==
  [][\A m \in DOMAIN calls :
       (PageFetched(m) /\ OneAfterAnother')
         => /\ hooks'[1].setOffsetCalls = hooks[1].setOffsetCalls + 1
            /\ hooks'[1].setOffsetArgs.lastItems = calls'[m].data
            /\ hooks'[1].setOffsetArgs.allItems = hooks'[1].state.items
            /\ hooks'[1].setOffsetArgs.lastOffset = calls[m].offsetValue]_vars

\* a next-page fetch is in progress: its request has neither settled nor
\* been aborted
FetchingNext ==
  \E k \in DOMAIN calls :
    /\ calls[k].pc = "awaiting"
    /\ calls[k].append
    /\ req[k].pc \notin {"resolved", "rejected"}
    /\ k \notin aborted

\* the step in which call m is made by `by`
MadeBy(m, by) == calls[m].pc = "idle" /\ calls'[m].by = by

\* C15: hasNextPage becomes false exactly when setOffset returns null for
\* the latest fetched page; while hasNextPage is false or a next-page fetch
\* is in progress, fetchNextPage starts no request and changes no state;
\* refetch sets hasNextPage to true, empties data, resets the offset to
\* initialOffset and reloads the first page
C15_HasNextPage ==
  [][\A m \in DOMAIN calls :
       /\ PageFetched(m) => hooks'[1].state.hasNextPage = calls'[m].nextOffset.some
       /\ (hooks[1].state.hasNextPage /\ ~hooks'[1].state.hasNextPage)
            => \E k \in DOMAIN calls : PageFetched(k) /\ ~calls'[k].nextOffset.some
       /\ (MadeBy(m, "fetchNextPage") /\ (~hooks[1].state.hasNextPage \/ FetchingNext))
            => /\ req' = req
               /\ hooks' = hooks
       /\ MadeBy(m, "refetch")
            => /\ hooks'[1].state.hasNextPage
               /\ hooks'[1].state.items = << >>
               /\ hooks'[1].state.offset = hooks[1].initialOffset
               /\ req'[m].pc = "called"
               /\ req'[m].config.params.entries = << <<OffsetKey, hooks[1].initialOffset>> >>]_vars

----------------------------------------------------------------------------
(* Claims about the fetch hook, checked under SpecFetch *)

\* C16: with enabled = false the fetch hook makes no request on mount or on
\* a dependency change and starts with isLoading = false, data = null and
\* error = null, and refetch() performs the request regardless of enabled;
\* with enabled = true it requests on mount and starts with isLoading = true
C16_Enabled ==
  /\ [](hooks[1].mounted = "no"
          => /\ hooks[1].state.isLoading = hooks[1].enabled
             /\ hooks[1].state.data = NullNumber
             /\ hooks[1].state.error = "null")
  /\ [][\A m \in DOMAIN calls :
          /\ ((MadeBy(m, "mount") \/ MadeBy(m, "change")) /\ ~hooks[1].enabled)
               => (req' = req /\ hooks'[1].state = hooks[1].state)
          /\ (MadeBy(m, "mount") /\ hooks[1].enabled)
               => (req'[m].pc = "called" /\ req'[m].config.url = hooks[1].url)
          /\ MadeBy(m, "refetch")
               => (req'[m].pc = "called" /\ req'[m].config.url = hooks[1].url)]_vars

C16_Witness ==
  \E m \in DOMAIN calls :
    /\ ~hooks[1].enabled
    /\ calls[1].by = "mount"
    /\ calls[1].pc = "returned"
    /\ calls[m].by = "refetch"
    /\ calls[m].pc = "ok"
    /\ hooks[1].state.data = Some(DataOf(m))

\* the step in which the fetchData call m ends without an abort error
Completes(m) == calls[m].pc = "awaiting" /\ calls'[m].pc \in {"ok", "failed"}

\* C17: when a fetch-hook request completes without being aborted, the hook
\* state and the value returned are: on success data = the response data,
\* error = null, isLoading = false and cacheKey = the cache key of the
\* response; on failure data = null, error = the error thrown, isLoading =
\* false and cacheKey = null
C17_StateAfterFetch ==
  [][\A m \in DOMAIN calls :
       Completes(m)
         => LET result == req[m].result
                expected ==
                  IF req[m].pc = "resolved"
                    THEN [data |-> Some(result.data), error |-> "null",
                          isLoading |-> FALSE,
                          cacheKey |-> Some(buildcacheKey(Get(hooks[1].url, FALSE, Undefined)))]
                    ELSE [data |-> NullNumber, error |-> result.error,
                          isLoading |-> FALSE, cacheKey |-> Null]
            IN /\ hooks'[1].state = expected
               /\ calls'[m].returned = expected]_vars

C17_Witness ==
  \E m \in DOMAIN calls :
    /\ calls[m].pc = "failed"
    /\ calls[m].returned.error = "TypeError"
    /\ hooks[1].state.error = "TypeError"
    /\ ~hooks[1].state.isLoading
    /\ \E k \in DOMAIN calls : calls[k].pc = "ok"

\* the latest fetchData call that started a request
Latest(m) ==
  /\ calls[m].pc \notin {"idle", "returned"}
  /\ \A k \in DOMAIN calls : k > m => calls[k].pc \in {"idle", "returned"}

\* C18: starting a new fetch (url or config change, refetch) or unmounting
\* aborts the request in flight, a request that has been superseded or
\* aborted never writes to the hook state, and after all requests settle the
\* state reflects the most recently started request only
C18_OnlyLatestWrites ==
  /\ [][\A m \in DOMAIN calls :
          /\ ((calls[m].pc = "idle" /\ calls'[m].pc = "awaiting")
                \/ (hooks[1].mounted = "yes" /\ hooks'[1].mounted = "gone"))
               => (hooks[1].abortControllerRef # NoSignal
                     => hooks[1].abortControllerRef \in aborted')
          /\ (calls[m].pc = "awaiting" /\ calls'[m].pc # "awaiting" /\ m \in aborted)
               => hooks'[1].state = hooks[1].state]_vars
  /\ [](\A m \in DOMAIN calls :
          (/\ Latest(m)
           /\ \A k \in DOMAIN calls : calls[k].pc # "awaiting"
           /\ calls[m].pc \in {"ok", "failed"})
            => hooks[1].state = calls[m].returned)

----------------------------------------------------------------------------
(* Claims about the mutation hook, checked under SpecMutate *)

\* the mutate calls of hook h, and those whose promise has not settled
CallsOf(h) == {m \in DOMAIN calls : calls[m].pc # "idle" /\ calls[m].hook = h}
PendingOf(h) == {m \in CallsOf(h) : calls[m].pc \in {"awaiting", "joined"}}

\* C19: in the mutation hook isLoading is true whenever a mutate call of the
\* hook is still pending, and once every mutate call of the hook has settled
\* isLoading is false, for every interleaving of mutate calls on one or
\* several hook instances
C19_IsLoading ==
  \A h \in DOMAIN hooks :
    /\ PendingOf(h) # {} => hooks[h].state.isLoading
    /\ (CallsOf(h) # {} /\ PendingOf(h) = {}) => ~hooks[h].state.isLoading

\* the step in which the promise of call m settles
CallSettles(m) ==
  calls[m].pc \in {"awaiting", "joined"} /\ calls'[m].pc \in {"resolved", "rejected"}

\* C20: with progress 'upload' or 'download' the transport progress events
\* of the in-flight mutate update the progress state of the hook to the
\* loaded, total and percentage reported, for every HTTP method; progress is
\* reset to null when mutate starts and when it settles, and is always null
\* when progress is not configured
C20_Progress ==
  /\ [](\A m \in DOMAIN calls :
          (/\ calls[m].pc = "awaiting"
           /\ hooks[calls[m].hook].progress # "undefined"
           /\ req[m].pc = "fetching")
            => UsesXHR(req[m].config))
  /\ [](\A h \in DOMAIN hooks :
          hooks[h].progress = "undefined" => hooks[h].state.progress = NullProgress)
  /\ [][/\ \A m \in DOMAIN calls :
            /\ Called(m) => hooks'[calls'[m].hook].state.progress = NullProgress
            /\ CallSettles(m) => hooks'[calls[m].hook].state.progress = NullProgress
        /\ (hooks' # hooks /\ calls' = calls)
             => \E m \in DOMAIN calls : \E progress \in ProgressEvents :
                  /\ req[m].pc = "fetching"
                  /\ hooks' = [hooks EXCEPT
                                ![calls[m].hook].state.progress = Some(progress)]]_vars

\* the calls that started a transport request of their own and whose
\* `await requestPromise` has not resumed: the requests in flight
Registering == {m \in DOMAIN calls : calls[m].pc = "awaiting"}

\* the map holds exactly the keys of the requests in flight, each with the
\* request that registered it
HoldsRegistering ==
  /\ \A m \in Registering :
       calls[m].key \in DOMAIN pendingRequests /\ pendingRequests[calls[m].key] = m
  /\ \A k \in DOMAIN pendingRequests :
       pendingRequests[k] \in Registering /\ calls[pendingRequests[k]].key = k

\* the entry of key k is taken out of the map, or replaced, in this step
Unregistered(k) ==
  k \in DOMAIN pendingRequests
    /\ (k \in DOMAIN pendingRequests' => pendingRequests'[k] # pendingRequests[k])

\* C31: the pendingRequests map holds a key exactly while the request that
\* registered it is in flight: the entry is added when the transport request
\* starts and is removed only when that same request settles, never by a
\* deduplicated caller and never by the completion of a different request
\* with the same key
C31_PendingWhileInFlight ==
  /\ []HoldsRegistering
  /\ [][\A k \in DOMAIN pendingRequests :
          Unregistered(k) => CallSettles(pendingRequests[k])]_vars

----------------------------------------------------------------------------
(* Timers: setTimeout and clearTimeout of the window.  A timer is a record  *)
(* of its id, the time it is due and what its callback was given; the       *)
(* timers of a hook are a set of such records.  Timer ids are positive, so  *)
(* the `null` of a timer ref is 0.                                          *)

\* the variables the user-interface hooks do not touch
NotUi == <<maxCacheSize, interceptors, cache, cacheAccessOrder, req, aborted, ret, useOrder,
           keyVars, pendingRequests, calls, pageVars>>

NoTimer == 0

setTimeout(timers, id, delay, arg) ==
  timers \cup {[id |-> id, due |-> now + delay, arg |-> arg]}

clearTimeout(timers, id) == {t \in timers : t.id # id}

\* the timer whose callback the event loop runs next: it is due, and no other
\* timer is due earlier or was set earlier for the same time
Due(timers, t) ==
  /\ t \in timers
  /\ t.due <= now
  /\ \A u \in timers : u.due > t.due \/ (u.due = t.due /\ u.id >= t.id)

\* a timer callback is waiting for the event loop
TimerWaiting == \E t \in hooks[1].timers : t.due <= now

\* time passes: a timer that is due runs before the clock moves on
Elapse(maxTime) ==
  /\ now + TickMs <= maxTime
  /\ ~TimerWaiting
  /\ now' = now + TickMs
  /\ UNCHANGED <<hooks, NotUi>>

----------------------------------------------------------------------------
(* useDebounce: the debounced value of an input value.  A render with a new *)
(* value and the effect it commits are one step.                            *)

MaxTimeDebounce == 500   \* the clock stops here in the debounce specifications
MaxRenders == 4          \* renders with a changed input in one behaviour

DebounceDelays == {TickMs, 2 * TickMs}
DebounceValues == {1, 2, 3}

\* the first render: useState(value), and the effect sets its timer
useDebounce(value, delay) ==
  [value |-> value, delay |-> delay, debouncedValue |-> value,
   handler |-> 1, timers |-> {[id |-> 1, due |-> delay, arg |-> value]},
   mounted |-> TRUE,
   \* observations: when the input last changed, the timers whose value
   \* was returned, and the timers of the inputs that were replaced before
   \* the delay elapsed
   since |-> 0, renders |-> 0, returned |-> << >>, replaced |-> {}]

\* the cleanup of the effect (mutant: it leaves the timer running)
CleanupKeeps(h) == h.timers
Cleanup(h) == clearTimeout(h.timers, h.handler)

\* a render with a changed value: the cleanup of the last effect, then the
\* effect of this render
RenderDebounce(value) ==
  LET h == hooks[1]
      id == h.handler + 1
  IN /\ h.mounted
     /\ h.renders < MaxRenders
     /\ value # h.value
     /\ hooks' = [hooks EXCEPT ![1] =
          [h EXCEPT !.value = value,
                    !.handler = id,
                    !.timers = setTimeout(Cleanup(h), id, h.delay, value),
                    !.since = now,
                    !.renders = @ + 1,
                    !.replaced = IF now - h.since < h.delay THEN @ \cup {h.handler} ELSE @]]
     /\ UNCHANGED <<now, NotUi>>

\* the timer callback: setDebouncedValue(value)
DebounceFires ==
  LET h == hooks[1]
  IN \E t \in h.timers :
       /\ Due(h.timers, t)
       /\ hooks' = [hooks EXCEPT ![1] =
            [h EXCEPT !.timers = @ \ {t},
                      !.debouncedValue = t.arg,
                      !.returned = IF t.arg = h.debouncedValue THEN @ ELSE Append(@, t.id)]]
       /\ UNCHANGED <<now, NotUi>>

\* the component unmounts: the cleanup of the last effect
UnmountDebounce ==
  LET h == hooks[1]
  IN /\ h.mounted
     /\ hooks' = [hooks EXCEPT ![1] = [h EXCEPT !.mounted = FALSE, !.timers = Cleanup(h)]]
     /\ UNCHANGED <<now, NotUi>>

InitDebounce ==
  /\ maxCacheSize = Constructor(Undefined)
  /\ interceptors = NoInterceptors
  /\ cache = EmptyMap
  /\ cacheAccessOrder = << >>
  /\ now = 0
  /\ req = << >>
  /\ aborted = {}
  /\ ret = NoRet
  /\ useOrder = << >>
  /\ pair = <<NoConfig, NoConfig>>
  /\ keys = << >>
  /\ pendingRequests = EmptyMap
  /\ \E value \in DebounceValues, delay \in DebounceDelays :
       hooks = <<useDebounce(value, delay)>>
  /\ calls = << >>
  /\ localStorage = EmptyMap
  /\ document = NoDocument

NextDebounce ==
  \/ \E value \in DebounceValues : RenderDebounce(value)
  \/ DebounceFires
  \/ UnmountDebounce
  \/ Elapse(MaxTimeDebounce)

SpecDebounce == InitDebounce /\ [][NextDebounce]_vars

----------------------------------------------------------------------------
(* Claims about useDebounce, checked under SpecDebounce *)

\* C21: the value returned by useDebounce changes to v only after the input
\* has been v for the full delay without a change in between, so that an
\* input replaced before the delay elapsed is never returned; and once the
\* input has stayed unchanged for the delay the returned value is the input
C21_Debounced ==
  /\ [][hooks'[1].debouncedValue # hooks[1].debouncedValue
          => /\ hooks'[1].debouncedValue = hooks[1].value
             /\ now - hooks[1].since >= hooks[1].delay]_vars
  /\ [](\A i \in 1..Len(hooks[1].returned) :
          hooks[1].returned[i] \notin hooks[1].replaced)
  /\ []((/\ hooks[1].mounted
         /\ now - hooks[1].since >= hooks[1].delay
         /\ ~TimerWaiting)
          => hooks[1].debouncedValue = hooks[1].value)

\* an input was replaced before the delay elapsed, and a later input has
\* been returned after its delay
C21_Witness ==
  /\ \E id \in hooks[1].replaced : id > 1
  /\ Len(hooks[1].returned) >= 1
  /\ hooks[1].debouncedValue = hooks[1].value
  /\ now - hooks[1].since >= hooks[1].delay

----------------------------------------------------------------------------
(* useDebounceFunc: the debounced version of a callback.  On the discrete   *)
(* clock a timer that is due runs before the events of the same instant.    *)

MaxDebounceCalls == 3    \* calls of the debounced function in one behaviour

DebounceArgs == {1, 2}

useDebounceFunc(delay) ==
  [delay |-> delay, timerRef |-> NoTimer, timers |-> {}, nextId |-> 1, mounted |-> TRUE,
   \* observations: the calls made, and the runs of the callback
   called |-> << >>, ran |-> << >>, unmountedAt |-> Undefined]

\* `if (timerRef.current) clearTimeout(timerRef.current)` (mutant: the
\* earlier timer is left running)
ClearPendingKeeps(h) == h.timers
ClearPending(h) ==
  IF h.timerRef # NoTimer THEN clearTimeout(h.timers, h.timerRef) ELSE h.timers

\* a call of the debounced function
debouncedFunction(args) ==
  LET h == hooks[1]
  IN /\ h.mounted
     /\ ~TimerWaiting
     /\ Len(h.called) < MaxDebounceCalls
     /\ hooks' = [hooks EXCEPT ![1] =
          [h EXCEPT !.timers = setTimeout(ClearPending(h), h.nextId, h.delay, args),
                    !.timerRef = h.nextId,
                    !.nextId = @ + 1,
                    !.called = Append(@, [at |-> now, args |-> args])]]
     /\ UNCHANGED <<now, NotUi>>

\* the timer callback: callback(...args)
CallbackRuns ==
  LET h == hooks[1]
  IN \E t \in h.timers :
       /\ Due(h.timers, t)
       /\ hooks' = [hooks EXCEPT ![1] =
            [h EXCEPT !.timers = @ \ {t},
                      !.ran = Append(@, [at |-> now, args |-> t.arg])]]
       /\ UNCHANGED <<now, NotUi>>

\* the component unmounts: the cleanup of the effect
UnmountDebounceFunc ==
  LET h == hooks[1]
  IN /\ h.mounted
     /\ hooks' = [hooks EXCEPT ![1] =
          [h EXCEPT !.mounted = FALSE, !.timers = ClearPending(h), !.unmountedAt = now]]
     /\ UNCHANGED <<now, NotUi>>

InitDebounceFunc ==
  /\ maxCacheSize = Constructor(Undefined)
  /\ interceptors = NoInterceptors
  /\ cache = EmptyMap
  /\ cacheAccessOrder = << >>
  /\ now = 0
  /\ req = << >>
  /\ aborted = {}
  /\ ret = NoRet
  /\ useOrder = << >>
  /\ pair = <<NoConfig, NoConfig>>
  /\ keys = << >>
  /\ pendingRequests = EmptyMap
  /\ \E delay \in DebounceDelays : hooks = <<useDebounceFunc(delay)>>
  /\ calls = << >>
  /\ localStorage = EmptyMap
  /\ document = NoDocument

NextDebounceFunc ==
  \/ \E args \in DebounceArgs : debouncedFunction(args)
  \/ CallbackRuns
  \/ UnmountDebounceFunc
  \/ Elapse(MaxTimeDebounce)

SpecDebounceFunc == InitDebounceFunc /\ [][NextDebounceFunc]_vars

----------------------------------------------------------------------------
(* Claims about useDebounceFunc, checked under SpecDebounceFunc *)

\* call i ends a burst: no call follows it by less than the delay
EndsBurst(i) ==
  LET h == hooks[1]
  IN i = Len(h.called) \/ h.called[i + 1].at - h.called[i].at >= h.delay

\* the runs of the callback that belong to call i
RunsOf(i) ==
  LET h == hooks[1]
  IN {j \in 1..Len(h.ran) :
        /\ h.ran[j].at = h.called[i].at + h.delay
        /\ h.ran[j].args = h.called[i].args}

\* the time at which the callback of call i is due has passed with the
\* component mounted
Elapsed(i) ==
  LET h == hooks[1]
      due == h.called[i].at + h.delay
  IN /\ now >= due
     /\ ~TimerWaiting
     /\ h.unmountedAt = Undefined \/ h.unmountedAt > due

----------------------------------------------------------------------------
(* useConditionalDebounce: run(condition, callback)                         *)

MaxRuns == 3             \* calls of run in one behaviour

DebounceCallbacks == {1, 2}

useConditionalDebounce(delay) ==
  [delay |-> delay, timeoutRef |-> NoTimer, timers |-> {}, nextId |-> 1, mounted |-> TRUE,
   \* observations: the calls of run, each with the timer it set, and the
   \* callbacks executed, each with the timer that ran it
   runs |-> << >>, fired |-> << >>, unmountedAt |-> Undefined]

\* `if (timeoutRef.current) clearTimeout(timeoutRef.current)`
ClearTimeoutRef(h) ==
  IF h.timeoutRef # NoTimer THEN clearTimeout(h.timers, h.timeoutRef) ELSE h.timers

\* `if (!condition) return` (mutant: the condition is not looked at)
ReturnsNever(condition) == FALSE
Returns(condition) == ~condition

run(condition, callback) ==
  LET h == hooks[1]
      cleared == ClearTimeoutRef(h)
  IN /\ h.mounted
     /\ ~TimerWaiting
     /\ Len(h.runs) < MaxRuns
     /\ hooks' = [hooks EXCEPT ![1] =
          IF Returns(condition)
            THEN [h EXCEPT !.timers = cleared,
                           !.runs = Append(@, [at |-> now, condition |-> condition,
                                               callback |-> callback, timer |-> NoTimer])]
            ELSE [h EXCEPT !.timers = setTimeout(cleared, h.nextId, h.delay, callback),
                           !.timeoutRef = h.nextId,
                           !.nextId = @ + 1,
                           !.runs = Append(@, [at |-> now, condition |-> condition,
                                               callback |-> callback, timer |-> h.nextId])]]
     /\ UNCHANGED <<now, NotUi>>

\* the timer callback: callback()
ConditionalFires ==
  LET h == hooks[1]
  IN \E t \in h.timers :
       /\ Due(h.timers, t)
       /\ hooks' = [hooks EXCEPT ![1] =
            [h EXCEPT !.timers = @ \ {t},
                      !.fired = Append(@, [at |-> now, callback |-> t.arg, timer |-> t.id])]]
       /\ UNCHANGED <<now, NotUi>>

\* the component unmounts: the cleanup of the effect
UnmountConditional ==
  LET h == hooks[1]
  IN /\ h.mounted
     /\ hooks' = [hooks EXCEPT ![1] =
          [h EXCEPT !.mounted = FALSE, !.timers = ClearTimeoutRef(h), !.unmountedAt = now]]
     /\ UNCHANGED <<now, NotUi>>

InitConditional ==
  /\ maxCacheSize = Constructor(Undefined)
  /\ interceptors = NoInterceptors
  /\ cache = EmptyMap
  /\ cacheAccessOrder = << >>
  /\ now = 0
  /\ req = << >>
  /\ aborted = {}
  /\ ret = NoRet
  /\ useOrder = << >>
  /\ pair = <<NoConfig, NoConfig>>
  /\ keys = << >>
  /\ pendingRequests = EmptyMap
  /\ \E delay \in DebounceDelays : hooks = <<useConditionalDebounce(delay)>>
  /\ calls = << >>
  /\ localStorage = EmptyMap
  /\ document = NoDocument

NextConditional ==
  \/ \E condition \in BOOLEAN, callback \in DebounceCallbacks : run(condition, callback)
  \/ ConditionalFires
  \/ UnmountConditional
  \/ Elapse(MaxTimeDebounce)

SpecConditional == InitConditional /\ [][NextConditional]_vars

----------------------------------------------------------------------------
(* Claims about useConditionalDebounce, checked under SpecConditional *)

\* the executions that belong to the i-th call of run
FiredOf(i) ==
  LET h == hooks[1]
  IN {j \in 1..Len(h.fired) :
        /\ h.runs[i].timer # NoTimer
        /\ h.fired[j].timer = h.runs[i].timer
        /\ h.fired[j].callback = h.runs[i].callback
        /\ h.fired[j].at = h.runs[i].at + h.delay}

\* the i-th call of run was left alone for the delay: no later call and no
\* unmount came before its callback was due, and that time has passed
LeftAlone(i) ==
  LET h == hooks[1]
      due == h.runs[i].at + h.delay
  IN /\ i = Len(h.runs) \/ h.runs[i + 1].at >= due
     /\ h.unmountedAt = Undefined \/ h.unmountedAt > due
     /\ now >= due
     /\ ~TimerWaiting

\* the step is a call of run
Runs == Len(hooks'[1].runs) = Len(hooks[1].runs) + 1

----------------------------------------------------------------------------
(* useSlider: the current slide of a slider with arrows and drag gestures.  *)
(* An action is one event handler and the render that follows it, so the    *)
(* handlers read the state of the last render.                              *)

MaxSlides == 3           \* largest data.length tried
MaxTimeSlider == 200     \* the clock stops here in the slider specification

ThrottleDelay == 100     \* throttle(callback, delay = 100)
SwipeBound == 64         \* a drag longer than this changes the slide
TapBound == 24           \* a touch movement up to this is no movement
Positions == {0, 100}       \* page coordinates of the pointer

Abs(x) == IF x < 0 THEN -x ELSE x

useSlider(n, infiniteSlide, isLoading, mobileOnly, onNext, onBack) ==
  [n |-> n, infiniteSlide |-> infiniteSlide, isLoading |-> isLoading,
   mobileOnly |-> mobileOnly, onNext |-> onNext, onBack |-> onBack,
   currentSlide |-> 0, movement |-> 0, grab |-> FALSE,
   startRef |-> 0, endRef |-> 0, throttleRef |-> FALSE,
   timers |-> {}, nextId |-> 1,
   \* observations: a bit that every call of next and back flips, the last
   \* of these calls, when a call was last let through by throttle, and
   \* whether throttle has held a call back
   noted |-> FALSE,
   last |-> [name |-> "none", through |-> FALSE],
   passedAt |-> Undefined, held |-> FALSE]

disableLeftArrow(h) == h.currentSlide = 0 \/ h.n = 0 \/ h.isLoading
disableRightArrow(h) == h.currentSlide = h.n - 1 \/ h.n = 0 \/ h.isLoading

\* `if (throttleRef.current) return` (mutant: no call is held back)
ThrottledNever(h) == FALSE
Throttled(h) == h.throttleRef

\* throttle(callback), where callback sets the current slide to slide
throttle(h, slide) ==
  IF Throttled(h) THEN [h EXCEPT !.held = TRUE]
  ELSE [h EXCEPT !.throttleRef = TRUE,
                 !.currentSlide = slide,
                 !.timers = setTimeout(@, h.nextId, ThrottleDelay, 0),
                 !.nextId = @ + 1,
                 !.passedAt = now,
                 !.last.through = TRUE]

\* a call of next or back is counted
Noted(h, name) ==
  [h EXCEPT !.noted = ~@,
            !.last = [name |-> name, through |-> FALSE]]

Next(h) ==
  IF disableRightArrow(h) /\ ~h.infiniteSlide THEN Noted(h, "next")
  ELSE throttle(Noted(h, "next"), IF disableRightArrow(h) THEN 0 ELSE h.currentSlide + 1)

Back(h) ==
  IF disableLeftArrow(h) /\ ~h.infiniteSlide THEN Noted(h, "back")
  ELSE throttle(Noted(h, "back"), IF disableLeftArrow(h) THEN h.n - 1 ELSE h.currentSlide - 1)

\* the arrows
next ==
  /\ ~TimerWaiting
  /\ hooks' = [hooks EXCEPT ![1] = Next(hooks[1])]
  /\ UNCHANGED <<now, NotUi>>

back ==
  /\ ~TimerWaiting
  /\ hooks' = [hooks EXCEPT ![1] = Back(hooks[1])]
  /\ UNCHANGED <<now, NotUi>>

\* `mobileOnly && window.innerWidth >= (mobileBound || MOBILE_BOUND)`
NotMobile(h, wide) == h.mobileOnly /\ wide

\* the window is at least as wide as the bound, or it is not: the width
\* is read only by a slider that is mobileOnly
Widths(h) == IF h.mobileOnly THEN BOOLEAN ELSE {FALSE}

startSlide(position, wide) ==
  LET h == hooks[1]
  IN /\ ~TimerWaiting
     /\ hooks' = [hooks EXCEPT ![1] =
          IF NotMobile(h, wide) THEN h
          ELSE [h EXCEPT !.startRef = position, !.grab = TRUE]]
     /\ UNCHANGED <<now, NotUi>>

moveSlide(position, mobile, wide) ==
  LET h == hooks[1]
      diff == position - h.startRef
      move == IF mobile /\ Abs(diff) <= TapBound THEN 0 ELSE diff
      len == h.n - 1
      first == IF (~h.onNext \/ ~h.onBack) /\ h.currentSlide = 0 /\ move > 0
                 THEN 0 ELSE h.currentSlide
      slide == IF (~h.onNext \/ ~h.onBack) /\ h.currentSlide = len /\ move < 0
                 THEN len ELSE first
  IN /\ ~TimerWaiting
     /\ h.grab
     /\ hooks' = [hooks EXCEPT ![1] =
          IF NotMobile(h, wide) THEN h
          ELSE [h EXCEPT !.currentSlide = slide, !.movement = move]]
     /\ UNCHANGED <<now, NotUi>>

endSlide(position, wide) ==
  LET h == hooks[1]
      ended == [h EXCEPT !.grab = FALSE, !.endRef = position]
      forth == IF h.startRef > position /\ h.startRef - position > SwipeBound /\ ~h.onNext
                 THEN Next(ended) ELSE ended
      \* back reads the state of the same render as next did
      moved == IF h.startRef < position /\ position - h.startRef > SwipeBound /\ ~h.onBack
                 THEN Back(forth) ELSE forth
  IN /\ ~TimerWaiting
     /\ h.grab
     /\ hooks' = [hooks EXCEPT ![1] =
          IF NotMobile(h, wide) THEN h ELSE [moved EXCEPT !.movement = 0]]
     /\ UNCHANGED <<now, NotUi>>

\* the timer of throttle: throttleRef.current = false
ThrottleEnds ==
  LET h == hooks[1]
  IN \E t \in h.timers :
       /\ Due(h.timers, t)
       /\ hooks' = [hooks EXCEPT ![1] = [h EXCEPT !.timers = @ \ {t}, !.throttleRef = FALSE]]
       /\ UNCHANGED <<now, NotUi>>

InitSlider ==
  /\ maxCacheSize = Constructor(Undefined)
  /\ interceptors = NoInterceptors
  /\ cache = EmptyMap
  /\ cacheAccessOrder = << >>
  /\ now = 0
  /\ req = << >>
  /\ aborted = {}
  /\ ret = NoRet
  /\ useOrder = << >>
  /\ pair = <<NoConfig, NoConfig>>
  /\ keys = << >>
  /\ pendingRequests = EmptyMap
  /\ \E n \in 0..MaxSlides, infiniteSlide \in BOOLEAN, isLoading \in BOOLEAN,
        mobileOnly \in BOOLEAN, onNext \in BOOLEAN, onBack \in BOOLEAN :
       hooks = <<useSlider(n, infiniteSlide, isLoading, mobileOnly, onNext, onBack)>>
  /\ calls = << >>
  /\ localStorage = EmptyMap
  /\ document = NoDocument

NextSlider ==
  \/ next
  \/ back
  \/ \E position \in Positions, wide \in Widths(hooks[1]) : startSlide(position, wide)
  \/ \E position \in Positions, mobile \in BOOLEAN, wide \in Widths(hooks[1]) :
       moveSlide(position, mobile, wide)
  \/ \E position \in Positions, wide \in Widths(hooks[1]) : endSlide(position, wide)
  \/ ThrottleEnds
  \/ Elapse(MaxTimeSlider)

SpecSlider == InitSlider /\ [][NextSlider]_vars

----------------------------------------------------------------------------
(* Claims about useSlider, checked under SpecSlider *)

Max(a, b) == IF a >= b THEN a ELSE b

\* C24: for a fixed data array of any length n, 0 included, and any choice
\* of infiniteSlide, isLoading and mobileOnly, currentSlide stays within
\* 0 <= currentSlide <= max(0, n - 1) after any sequence of next(), back()
\* and drag gestures that starts at slide 0
C24_SlideInRange ==
  /\ 0 <= hooks[1].currentSlide
  /\ hooks[1].currentSlide <= Max(0, hooks[1].n - 1)

\* the step holds a call of next, or of back, made from an arrow or at the
\* end of a drag
Navigates(name) ==
  hooks'[1].noted # hooks[1].noted /\ hooks'[1].last.name = name

\* no call of next or back was let through in the last 100 ms
OutsideWindow ==
  hooks[1].passedAt = Undefined \/ now - hooks[1].passedAt >= ThrottleDelay

\* C25: navigation steps by one slide.  Without infiniteSlide next() at the
\* last slide and back() at the first slide change nothing, and otherwise
\* they move by +1 and -1; with infiniteSlide and n >= 1 slides an effective
\* next() moves from slide i to (i + 1) mod n and an effective back() from i
\* to (i - 1) mod n, in every state of the hook
C25_StepsByOne ==
  [][LET h == hooks[1]
         i == h.currentSlide
         j == hooks'[1].currentSlide
     IN (OutsideWindow /\ h.n >= 1)
          => /\ Navigates("next")
                  => j = IF h.infiniteSlide THEN (i + 1) % h.n
                         ELSE IF i = h.n - 1 THEN i ELSE i + 1
             /\ Navigates("back")
                  => j = IF h.infiniteSlide THEN (i - 1) % h.n
                         ELSE IF i = 0 THEN i ELSE i - 1]_vars

\* the call of the step gets as far as throttle: the arrow is not disabled,
\* or the slider is infinite
Reaches(name) ==
  LET h == hooks[1]
  IN /\ Navigates(name)
     /\ h.infiniteSlide \/ ~(IF name = "next" THEN disableRightArrow(h) ELSE disableLeftArrow(h))

\* C26: after a call of next() or back() has been let through, every
\* further call of next() or back() in the following 100 ms changes nothing,
\* and calls are let through again once the 100 ms have passed
C26_Throttled ==
  [][\A name \in {"next", "back"} :
       /\ (Navigates(name) /\ ~OutsideWindow)
            => /\ hooks'[1].currentSlide = hooks[1].currentSlide
               /\ hooks'[1].passedAt = hooks[1].passedAt
               /\ hooks'[1].timers = hooks[1].timers
               /\ ~hooks'[1].last.through
       /\ (Reaches(name) /\ OutsideWindow)
            => /\ hooks'[1].last.through
               /\ hooks'[1].passedAt = now]_vars

\* a call was held back inside the 100 ms, and a later call has moved the
\* slider after them
C26_Witness ==
  /\ hooks[1].held
  /\ hooks[1].last.through
  /\ hooks[1].passedAt >= ThrottleDelay
  /\ hooks[1].currentSlide = 2

----------------------------------------------------------------------------
(* JSON values, JSON.stringify and JSON.parse.  A value is a record of its  *)
(* type and content; numbers are integers; the items of an object are its   *)
(* members, each a name and a value, in insertion order.                    *)

JNull == [t |-> "null", n |-> 0, s |-> << >>, items |-> << >>]
JBool(b) == [t |-> "boolean", n |-> IF b THEN 1 ELSE 0, s |-> << >>, items |-> << >>]
JNum(n) == [t |-> "number", n |-> n, s |-> << >>, items |-> << >>]
JStr(s) == [t |-> "string", n |-> 0, s |-> s, items |-> << >>]
JArr(items) == [t |-> "array", n |-> 0, s |-> << >>, items |-> items]
JObj(members) == [t |-> "object", n |-> 0, s |-> << >>, items |-> members]
Member(name, value) == [name |-> name, value |-> value]

WordNull == <<110, 117, 108, 108>>
WordTrue == <<116, 114, 117, 101>>
WordFalse == <<102, 97, 108, 115, 101>>

RECURSIVE Stringify(_)
RECURSIVE StringifyItems(_, _)
\* the items of an array or the members of an object, with commas
StringifyItems(items, members) ==
  IF items = << >> THEN << >>
  ELSE (IF members THEN JsonString(items[1].name) \o <<58>> \o Stringify(items[1].value)
        ELSE Stringify(items[1]))
       \o (IF Len(items) > 1 THEN <<44>> ELSE << >>)
       \o StringifyItems(Tail(items), members)

\* JSON.stringify(value)
Stringify(v) ==
  CASE v.t = "null" -> WordNull
    [] v.t = "boolean" -> IF v.n = 1 THEN WordTrue ELSE WordFalse
    [] v.t = "number" -> IF v.n < 0 THEN <<45>> \o Digits(-v.n) ELSE Digits(v.n)
    [] v.t = "string" -> JsonString(v.s)
    [] v.t = "array" -> <<91>> \o StringifyItems(v.items, FALSE) \o <<93>>
    [] v.t = "object" -> <<123>> \o StringifyItems(v.items, TRUE) \o <<125>>

\* the result of parsing a value that starts at a position of the text
ParseFails == [ok |-> FALSE, v |-> JNull, next |-> 0]
Parsed(v, after) == [ok |-> TRUE, v |-> v, next |-> after]

IsDigit(c) == c >= 48 /\ c <= 57
IsWhitespace(c) == c \in {32, 9, 10, 13}

\* the first position at or after i that holds no whitespace
RECURSIVE SkipWhitespace(_, _)
SkipWhitespace(text, i) ==
  IF i <= Len(text) /\ IsWhitespace(text[i]) THEN SkipWhitespace(text, i + 1) ELSE i

At(text, i) == IF i >= 1 /\ i <= Len(text) THEN text[i] ELSE 0

ParseWord(text, i, word, v) ==
  IF i + Len(word) - 1 <= Len(text) /\ SubSeq(text, i, i + Len(word) - 1) = word
    THEN Parsed(v, i + Len(word)) ELSE ParseFails

\* the digits from i on, read as a number that starts with acc
RECURSIVE ParseDigits(_, _, _)
ParseDigits(text, i, acc) ==
  IF IsDigit(At(text, i)) THEN ParseDigits(text, i + 1, acc * 10 + (text[i] - 48))
  ELSE [n |-> acc, next |-> i]

\* an integer: an optional minus sign, then 0 or digits that do not start
\* with 0
ParseNumber(text, i) ==
  LET negative == At(text, i) = 45
      j == IF negative THEN i + 1 ELSE i
      digits == IF At(text, j) = 48 THEN [n |-> 0, next |-> j + 1]
                ELSE ParseDigits(text, j, 0)
  IN IF ~IsDigit(At(text, j)) THEN ParseFails
     ELSE Parsed(JNum(IF negative THEN -digits.n ELSE digits.n), digits.next)

HexValue(c) ==
  IF IsDigit(c) THEN c - 48
  ELSE IF c >= 97 /\ c <= 102 THEN c - 87
  ELSE IF c >= 65 /\ c <= 70 THEN c - 55
  ELSE -1

\* the character an escape sequence stands for, -1 when there is none
Unescaped(c) ==
  CASE c = 34 -> 34 [] c = 92 -> 92 [] c = 47 -> 47 [] c = 98 -> 8 [] c = 102 -> 12
    [] c = 110 -> 10 [] c = 114 -> 13 [] c = 116 -> 9 [] OTHER -> -1

\* the characters of a string from i on, up to the closing quote
RECURSIVE ParseChars(_, _, _)
ParseChars(text, i, acc) ==
  LET c == At(text, i)
      e == At(text, i + 1)
      hex == [k \in 1..4 |-> HexValue(At(text, i + 1 + k))]
  IN IF i > Len(text) \/ c < 32 THEN ParseFails
     ELSE IF c = 34 THEN Parsed(JStr(acc), i + 1)
     ELSE IF c # 92 THEN ParseChars(text, i + 1, Append(acc, c))
     ELSE IF e = 117
       THEN IF \E k \in 1..4 : hex[k] < 0 THEN ParseFails
            ELSE ParseChars(text, i + 6,
                            Append(acc, ((hex[1] * 16 + hex[2]) * 16 + hex[3]) * 16 + hex[4]))
     ELSE IF Unescaped(e) < 0 THEN ParseFails
     ELSE ParseChars(text, i + 2, Append(acc, Unescaped(e)))

ParseString(text, i) ==
  IF At(text, i) = 34 THEN ParseChars(text, i + 1, << >>) ELSE ParseFails

RECURSIVE ParseValue(_, _)
RECURSIVE ParseItems(_, _, _)
RECURSIVE ParseMembers(_, _, _)

\* the items of an array from i on, up to the closing bracket
ParseItems(text, i, acc) ==
  LET item == ParseValue(text, SkipWhitespace(text, i))
      j == SkipWhitespace(text, item.next)
  IN IF ~item.ok THEN ParseFails
     ELSE IF At(text, j) = 44 THEN ParseItems(text, j + 1, Append(acc, item.v))
     ELSE IF At(text, j) = 93 THEN Parsed(JArr(Append(acc, item.v)), j + 1)
     ELSE ParseFails

\* the members of an object from i on, up to the closing brace
ParseMembers(text, i, acc) ==
  LET name == ParseString(text, SkipWhitespace(text, i))
      colon == SkipWhitespace(text, name.next)
      value == ParseValue(text, SkipWhitespace(text, colon + 1))
      j == SkipWhitespace(text, value.next)
      members == Append(acc, Member(name.v.s, value.v))
  IN IF ~name.ok \/ At(text, colon) # 58 THEN ParseFails
     ELSE IF ~value.ok THEN ParseFails
     ELSE IF At(text, j) = 44 THEN ParseMembers(text, j + 1, members)
     ELSE IF At(text, j) = 125 THEN Parsed(JObj(members), j + 1)
     ELSE ParseFails

ParseValue(text, i) ==
  LET c == At(text, i)
  IN CASE c = 110 -> ParseWord(text, i, WordNull, JNull)
       [] c = 116 -> ParseWord(text, i, WordTrue, JBool(TRUE))
       [] c = 102 -> ParseWord(text, i, WordFalse, JBool(FALSE))
       [] c = 34 -> ParseString(text, i)
       [] c = 45 \/ IsDigit(c) -> ParseNumber(text, i)
       [] c = 91 -> IF At(text, SkipWhitespace(text, i + 1)) = 93
                      THEN Parsed(JArr(<< >>), SkipWhitespace(text, i + 1) + 1)
                      ELSE ParseItems(text, i + 1, << >>)
       [] c = 123 -> IF At(text, SkipWhitespace(text, i + 1)) = 125
                       THEN Parsed(JObj(<< >>), SkipWhitespace(text, i + 1) + 1)
                       ELSE ParseMembers(text, i + 1, << >>)
       [] OTHER -> ParseFails

\* JSON.parse(text): ok is false where it throws
JsonParse(text) ==
  LET r == ParseValue(text, SkipWhitespace(text, 1))
  IN IF r.ok /\ SkipWhitespace(text, r.next) = Len(text) + 1 THEN r ELSE ParseFails

----------------------------------------------------------------------------
(* The local storage helpers: setLocal, getLocal, removeLocal, clearLocals  *)

\* what setLocal hands to localStorage.setItem (mutant: a string is stored
\* as it is)
SerializeRaw(value) == IF value.t = "string" THEN value.s ELSE Stringify(value)
Serialize(value) == Stringify(value)

\* what getLocal(key) returns for a storage
Read(storage, key) ==
  LET present == key \in DOMAIN storage
      item == IF present THEN storage[key] ELSE << >>
      parsed == JsonParse(item)
  IN IF ~present \/ ~Truthy(item) THEN JNull
     ELSE IF parsed.ok THEN parsed.v
     ELSE JStr(item)

LocalRet(op, key, value) == [op |-> op, key |-> key, value |-> value]

setLocal(key, value) ==
  /\ localStorage' = MapSet(localStorage, key, Serialize(value))
  /\ ret' = LocalRet("setLocal", key, value)
  /\ UNCHANGED <<maxCacheSize, interceptors, cache, cacheAccessOrder, now, req, aborted,
                 useOrder, keyVars, mutVars, document>>

getLocal(key) ==
  /\ ret' = LocalRet("getLocal", key, Read(localStorage, key))
  /\ UNCHANGED <<maxCacheSize, interceptors, cache, cacheAccessOrder, now, req, aborted,
                 useOrder, keyVars, mutVars, pageVars>>

removeLocal(key) ==
  /\ localStorage' = MapDelete(localStorage, key)
  /\ ret' = LocalRet("removeLocal", key, JNull)
  /\ UNCHANGED <<maxCacheSize, interceptors, cache, cacheAccessOrder, now, req, aborted,
                 useOrder, keyVars, mutVars, document>>

clearLocals ==
  /\ localStorage' = EmptyMap
  /\ ret' = LocalRet("clearLocals", "", JNull)
  /\ UNCHANGED <<maxCacheSize, interceptors, cache, cacheAccessOrder, now, req, aborted,
                 useOrder, keyVars, mutVars, document>>

LocalKeys == {"", "theme", "user"}

\* the values tried: null, booleans, integers, strings that are empty, that
\* hold quotes and backslashes and that read as JSON, arrays and objects
LocalValues ==
  {JNull, JBool(TRUE), JBool(FALSE), JNum(0), JNum(-7), JNum(120),
   JStr(<< >>), JStr(<<97, 34, 92, 98>>), JStr(WordNull), JStr(<<48>>), JStr(<<91, 93>>),
   JArr(<< >>), JArr(<<JNum(1), JStr(<<44>>), JArr(<<JBool(FALSE)>>)>>),
   JObj(<< >>),
   JObj(<<Member(<<97>>, JNum(1)), Member(<<98, 34>>, JObj(<<Member(<<99>>, JNull)>>))>>)}

InitLocal ==
  /\ maxCacheSize = Constructor(Undefined)
  /\ interceptors = NoInterceptors
  /\ cache = EmptyMap
  /\ cacheAccessOrder = << >>
  /\ now = 0
  /\ req = << >>
  /\ aborted = {}
  /\ ret = LocalRet("none", "", JNull)
  /\ useOrder = << >>
  /\ pair = <<NoConfig, NoConfig>>
  /\ keys = << >>
  /\ pendingRequests = EmptyMap
  /\ hooks = << >>
  /\ calls = << >>
  /\ localStorage = EmptyMap
  /\ document = NoDocument

NextLocal ==
  \/ \E key \in LocalKeys, value \in LocalValues : setLocal(key, value)
  \/ \E key \in LocalKeys : getLocal(key)
  \/ \E key \in LocalKeys : removeLocal(key)
  \/ clearLocals

SpecLocal == InitLocal /\ [][NextLocal]_vars

----------------------------------------------------------------------------
(* Claims about the local storage helpers, checked under SpecLocal *)

\* C27: getLocal(k) after setLocal(k, v) returns a value equal to v, for
\* every key k and JSON-serializable value v; setLocal on another key does
\* not change it; after removeLocal(k) or clearLocals() getLocal(k) returns
\* null
C27_LocalRoundTrip ==
  [][/\ ret'.op = "setLocal"
          => /\ Read(localStorage', ret'.key) = ret'.value
             /\ \A k \in LocalKeys \ {ret'.key} :
                  Read(localStorage', k) = Read(localStorage, k)
     /\ ret'.op = "removeLocal" => Read(localStorage', ret'.key) = JNull
     /\ ret'.op = "clearLocals" => \A k \in LocalKeys : Read(localStorage', k) = JNull
     /\ ret'.op = "getLocal" => ret'.value = Read(localStorage, ret'.key)]_vars

\* getLocal has returned a string that holds a quote and a backslash while
\* another key holds an object
C27_Witness ==
  /\ ret.op = "getLocal"
  /\ ret.value = JStr(<<97, 34, 92, 98>>)
  /\ \E k \in DOMAIN localStorage :
       k # ret.key /\ Read(localStorage, k).t = "object" /\ Read(localStorage, k).items # << >>

----------------------------------------------------------------------------
(* The form helpers: provideFieldError and providePasswordFieldError.  The  *)
(* value of a field is a string of character codes; messages and class     *)
(* names are strings.  The rules are the entries of the rules object, each  *)
(* a message and whether it is an error, in the order of Object.entries.    *)

MaxRules == 3            \* rules given to provideFieldError
MaxPasswordLen == 9      \* longest password tried

ErrorBorder == "!border-error-main"

Rule(message, isError) == [message |-> message, isError |-> isError]

\* field_error.textContent = message; error = true; label?.classList.add(...)
ShowError(st, message) ==
  [error |-> TRUE,
   doc |-> [field_error |-> [textContent |-> message],
            label |-> [st.doc.label EXCEPT
                         !.classList = IF st.doc.label.exists
                                         THEN @ \cup {ErrorBorder} ELSE @]]]

\* `!error || !!field_value` (mutant: every rule that is true writes)
OverwritesAlways(error, value) == TRUE
Overwrites(error, value) == ~error \/ Truthy(value)

\* Object.entries(rules).forEach(...), from rule i on
RECURSIVE ForEachRule(_, _, _, _)
ForEachRule(st, rules, i, value) ==
  IF i > Len(rules) THEN st
  ELSE ForEachRule(IF rules[i].isError /\ Overwrites(st.error, value)
                     THEN ShowError(st, rules[i].message) ELSE st,
                   rules, i + 1, value)

\* `if (!error) { textContent = ''; label?.classList.remove(...) }`
ClearError(st) ==
  IF st.error THEN st.doc
  ELSE [field_error |-> [textContent |-> ""],
        label |-> [st.doc.label EXCEPT !.classList = @ \ {ErrorBorder}]]

FieldErrorOf(doc, value, rules) ==
  ClearError(ForEachRule([error |-> FALSE, doc |-> doc], rules, 1, value))

FormRet(op, value, rules) == [op |-> op, field_value |-> value, rules |-> rules]

provideFieldError(value, rules) ==
  /\ document' = FieldErrorOf(document, value, rules)
  /\ ret' = FormRet("provideFieldError", value, rules)
  /\ UNCHANGED <<maxCacheSize, interceptors, cache, cacheAccessOrder, now, req, aborted,
                 useOrder, keyVars, mutVars, localStorage>>

\* the regular expressions of the password rules
ANY_UPPERCASE(value) == \E i \in 1..Len(value) : value[i] >= 65 /\ value[i] <= 90
ANY_LOWERCASE(value) == \E i \in 1..Len(value) : value[i] >= 97 /\ value[i] <= 122
ANY_NUMBER(value) == \E i \in 1..Len(value) : IsDigit(value[i])
\* \w is a letter, a digit or the underscore
WordChar(c) == (c >= 65 /\ c <= 90) \/ (c >= 97 /\ c <= 122) \/ IsDigit(c) \/ c = 95
\* /[\W+_]/ (mutant: /\W/, which leaves the underscore out)
ANY_SYMBOL_NonWord(value) == \E i \in 1..Len(value) : ~WordChar(value[i])
ANY_SYMBOL(value) ==
  \E i \in 1..Len(value) : ~WordChar(value[i]) \/ value[i] = 43 \/ value[i] = 95
\* \s, among the characters up to 255
Space(c) == c \in {9, 10, 11, 12, 13, 32, 160}
\* /^\S+$/
NO_SPACE(value) == Len(value) > 0 /\ \A i \in 1..Len(value) : ~Space(value[i])
NoSpaceText == " tidak boleh berisi spasi"

firstRules(value) ==
  <<Rule("password harus diisi", ~Truthy(value)),
    Rule("panjang password minimal adalah 8 karakter", Len(value) < 8)>>

nextRules(value) ==
  <<Rule("huruf kapital", ~ANY_UPPERCASE(value)),
    Rule("huruf kecil", ~ANY_LOWERCASE(value)),
    Rule("angka", ~ANY_NUMBER(value)),
    Rule("simbol", ~ANY_SYMBOL(value))>>

\* Object.entries(nextRules).filter(([_, rule]) => rule)
nextError(value) == SelectSeq(nextRules(value), LAMBDA rule : rule.isError)

\* the callback of nextError.map, for the entry at idx (counted from 0)
MapEntry(errors, idx) ==
  LET len == Len(errors)
      message == errors[idx + 1].message
  IN IF len > 1 /\ idx >= len - 1
       THEN IF len <= 2 THEN " dan " \o message ELSE ", dan " \o message
     ELSE IF idx > 0 THEN ", " \o message
     ELSE message

RECURSIVE Join(_, _)
Join(errors, idx) ==
  IF idx >= Len(errors) THEN "" ELSE MapEntry(errors, idx) \o Join(errors, idx + 1)

nextMessage(errors) == "tambahkan " \o Join(errors, 0)

Suggestion(errors) == nextMessage(errors) \o " untuk memperkuat passwordmu."
TooWeak(errors) == "password  terlalu lemah. " \o nextMessage(errors) \o "."

\* Object.keys(nextError).length: nextError is an array, its keys are its
\* indices
KeysOfNextError(errors) == Len(errors)

PasswordErrorOf(doc, value) ==
  LET st1 == ForEachRule([error |-> FALSE, doc |-> doc], firstRules(value), 1, value)
      errors == nextError(value)
      st2 == IF Len(errors) > 0 /\ Overwrites(st1.error, value)
               THEN ShowError(st1, IF Len(errors) >= KeysOfNextError(errors) - 1
                                     THEN TooWeak(errors) ELSE Suggestion(errors))
               ELSE st1
      st3 == IF ~NO_SPACE(value) /\ Overwrites(st2.error, value)
               THEN ShowError(st2, "password " \o NoSpaceText)
               ELSE st2
  IN ClearError(st3)

providePasswordFieldError(value) ==
  /\ document' = PasswordErrorOf(document, value)
  /\ ret' = FormRet("providePasswordFieldError", value, << >>)
  /\ UNCHANGED <<maxCacheSize, interceptors, cache, cacheAccessOrder, now, req, aborted,
                 useOrder, keyVars, mutVars, localStorage>>

\* the field values tried: the empty string and a string
FieldValues == {<< >>, <<97>>}

FieldMessages == <<"wajib diisi", "format salah", "terlalu panjang">>

\* the rules objects tried: the first n messages, each true or false
FieldRules ==
  UNION {{[i \in 1..n |-> Rule(FieldMessages[i], isError[i])] : isError \in [1..n -> BOOLEAN]}
         : n \in 0..MaxRules}

\* the characters of the passwords tried: A, a, 1, !, _ and the space
PasswordChars == <<65, 97, 49, 33, 95, 32>>

\* the password of a length that repeats the characters chosen, in order
Password(chosen, len) == [i \in 1..len |-> chosen[((i - 1) % Len(chosen)) + 1]]

\* the subsequences of the password characters
Chosen == {SelectSeq(PasswordChars, LAMBDA c : c \in cs) : cs \in SUBSET {65, 97, 49, 33, 95, 32}}

Passwords ==
  {<< >>} \cup {Password(chosen, len) : chosen \in Chosen \ {<< >>}, len \in 1..MaxPasswordLen}

InitForm ==
  /\ maxCacheSize = Constructor(Undefined)
  /\ interceptors = NoInterceptors
  /\ cache = EmptyMap
  /\ cacheAccessOrder = << >>
  /\ now = 0
  /\ req = << >>
  /\ aborted = {}
  /\ ret = FormRet("none", << >>, << >>)
  /\ useOrder = << >>
  /\ pair = <<NoConfig, NoConfig>>
  /\ keys = << >>
  /\ pendingRequests = EmptyMap
  /\ hooks = << >>
  /\ calls = << >>
  /\ localStorage = EmptyMap
  /\ \E exists \in BOOLEAN, classList \in {{}, {"peer"}} :
       document = [NoDocument EXCEPT !.label = [exists |-> exists, classList |-> classList]]

NextForm ==
  \/ \E value \in FieldValues, rules \in FieldRules : provideFieldError(value, rules)
  \/ \E value \in Passwords : providePasswordFieldError(value)

SpecForm == InitForm /\ [][NextForm]_vars

----------------------------------------------------------------------------
(* Claims about the form helpers, checked under SpecForm *)

\* the rules that are true
TrueRules(rules) == {i \in 1..Len(rules) : rules[i].isError}

First(S) == CHOOSE i \in S : \A j \in S : i <= j
Last(S) == CHOOSE i \in S : \A j \in S : i >= j

\* the error element is empty and the label has no error border
Cleared(doc) == doc.field_error.textContent = "" /\ ErrorBorder \notin doc.label.classList

\* C28: after provideFieldError the text of the error element is empty and
\* the error border class is off the label if and only if no rule is true;
\* otherwise the border class is on the label and the text is the message
\* of the first true rule when the field value is empty, and of the last
\* true rule when it is not
C28_FieldError ==
  [][(ret'.op = "provideFieldError" /\ document'.label.exists)
       => LET rules == ret'.rules
              true == TrueRules(rules)
          IN /\ Cleared(document') <=> true = {}
             /\ true # {}
                  => /\ ErrorBorder \in document'.label.classList
                     /\ document'.field_error.textContent =
                          rules[IF ret'.field_value = << >> THEN First(true)
                                ELSE Last(true)].message]_vars

\* two rules are true, and the first of them is shown for an empty field
C28_Witness ==
  /\ ret.op = "provideFieldError"
  /\ ret.field_value = << >>
  /\ TrueRules(ret.rules) = {2, 3}
  /\ document.field_error.textContent = FieldMessages[2]
  /\ ErrorBorder \in document.label.classList

\* the character classes of a password
Uppercase(c) == c \in 65..90
Lowercase(c) == c \in 97..122
Numeral(c) == c \in 48..57
Blank(c) == c \in {9, 10, 11, 12, 13, 32, 160}
Symbol(c) == ~Uppercase(c) /\ ~Lowercase(c) /\ ~Numeral(c) /\ ~Blank(c)
Has(value, Class(_)) == \E i \in 1..Len(value) : Class(value[i])

\* the classes, of the four asked for, that a password does not hold
Missing(value) ==
  (IF Has(value, Uppercase) THEN {} ELSE {"huruf kapital"})
  \cup (IF Has(value, Lowercase) THEN {} ELSE {"huruf kecil"})
  \cup (IF Has(value, Numeral) THEN {} ELSE {"angka"})
  \cup (IF Has(value, Symbol) THEN {} ELSE {"simbol"})

Strong(value) ==
  /\ Len(value) >= 8
  /\ Missing(value) = {}
  /\ ~Has(value, Blank)

\* C29: after providePasswordFieldError the error text is empty and the
\* error border is off the label if and only if the password has at least 8
\* characters, holds an uppercase letter, a lowercase letter, a digit and a
\* symbol, and holds no whitespace; an empty password always shows
\* 'password harus diisi'
C29_PasswordError ==
  [][(ret'.op = "providePasswordFieldError" /\ document'.label.exists)
       => /\ Cleared(document') <=> Strong(ret'.field_value)
          /\ ~Strong(ret'.field_value) => ErrorBorder \in document'.label.classList
          /\ ret'.field_value = << >>
               => document'.field_error.textContent = "password harus diisi"]_vars

\* a password whose only symbol is the underscore has been accepted
C29_Witness ==
  /\ ret.op = "providePasswordFieldError"
  /\ Strong(ret.field_value)
  /\ \A i \in 1..Len(ret.field_value) : Symbol(ret.field_value[i]) => ret.field_value[i] = 95
  /\ document.label.exists
  /\ Cleared(document)

\* the message that suggests the classes to add
SuggestionOf(value) == Suggestion(SelectSeq(nextRules(value), LAMBDA rule : rule.message \in Missing(value)))

\* the text says that the password is too weak
SaysTooWeak(text) ==
  \E value \in Passwords : text = TooWeak(nextError(value)) /\ nextError(value) # << >>

\* C30: for a password of at least 8 characters without whitespace that
\* misses only one or two of the four character classes the message shown
\* is the suggestion 'tambahkan <missing classes> untuk memperkuat
\* passwordmu.', and the 'password terlalu lemah' message is shown only
\* when more classes are missing
C30_ContextAware ==
  [][ret'.op = "providePasswordFieldError"
       => LET value == ret'.field_value
              text == document'.field_error.textContent
          IN /\ (/\ Len(value) >= 8
                 /\ ~Has(value, Blank)
                 /\ Cardinality(Missing(value)) \in {1, 2})
                  => text = SuggestionOf(value)
             /\ SaysTooWeak(text) => Cardinality(Missing(value)) >= 3]_vars

====
